---- MODULE Spec2Model ----
(***************************************************************************)
(* A model of the concurrent Adaptive Radix Tree of src/art.go: the node   *)
(* variants (leaf, node4, node16, node48, node256), the version/lock/      *)
(* obsolete word and its primitives, and Tree.insert / Tree.search as      *)
(* step machines, one step per access to shared memory.                    *)
(*                                                                         *)
(* A byte is a number 0..255, a key a sequence of bytes, a node pointer an *)
(* index into heap (Nil = 0), a slot pointer a record [n, i]:              *)
(* n = 0 is &t.node, otherwise &heap[n].childPtr[i] (i counted from 0).    *)
(***************************************************************************)
EXTENDS Integers, Sequences, FiniteSets, TLC

VARIABLES heap, root, th, todo, setup, started, completed, ref

vars == <<heap, root, th, todo, setup, started, completed, ref>>

(***************************************************************************)
(* Program constants                                                       *)
(***************************************************************************)
TerminationChar == 255
MaxInlinePrefixLength == 8
OBSOLETE_BIT == 1
LOCK_BIT == 2
LOCK_INCREMENT == 2
Cap4 == 4
Cap16 == 16
Cap48 == 48
Cap256 == 256
Nil == 0
NoVal == 0

nodeTypeLeaf == "leaf"
nodeType4 == "n4"
nodeType16 == "n16"
nodeType48 == "n48"
nodeType256 == "n256"

(***************************************************************************)
(* Bounds of the model                                                     *)
(***************************************************************************)
\* number of threads of the concurrent workloads
NThreads == 3
\* operations of each thread of the general concurrent workload
OpsPerThread == 1
\* operations of the sequential workload
MaxSeqOps == 5

\* distinct edge bytes given to one node by the growth workload
GrowKeys == 49

Threads == 1..NThreads

(***************************************************************************)
(* Small helpers                                                           *)
(***************************************************************************)
Min2(x, y) == IF x <= y THEN x ELSE y

Zeros(n) == [i \in 1..n |-> 0]

\* the Go slice expression s[lo:hi], 0-based, hi exclusive
Slice(s, lo, hi) == [i \in 1..(hi - lo) |-> s[lo + i]]

RootSlot == [n |-> 0, i |-> 0]

\* the nil *node returned by findChild on absence
NilSlot == [n |-> -1, i |-> 0]

(***************************************************************************)
(* The version word: 62 bit counter, lock bit, obsolete bit                *)
(***************************************************************************)
IsLocked(v) == (v \div LOCK_BIT) % 2 = 1

IsObsolete(v) == v % 2 = OBSOLETE_BIT

setLockedBit(version) == IF IsLocked(version) THEN version ELSE version + LOCK_BIT

setObsoleteBit(version) == IF IsObsolete(version) THEN version ELSE version + OBSOLETE_BIT

(***************************************************************************)
(* Node records.  Every node carries all fields; a variant leaves the ones *)
(* it does not have empty.                                                 *)
(***************************************************************************)
NewLeaf(key, val) ==
    [type |-> nodeTypeLeaf, key |-> key, val |-> val, ver |-> 0,
     prefixPtr |-> <<>>, prefix |-> <<>>, prefixLen |-> 0,
     keys |-> <<>>, childPtr |-> <<>>, childIndex |-> <<>>, numOfChildren |-> 0]

newNode4Locked ==
    [type |-> nodeType4, key |-> <<>>, val |-> NoVal, ver |-> setLockedBit(0),
     prefixPtr |-> <<>>, prefix |-> Zeros(MaxInlinePrefixLength), prefixLen |-> 0,
     keys |-> Zeros(Cap4), childPtr |-> Zeros(Cap4), childIndex |-> <<>>,
     numOfChildren |-> 0]

getType(nd) == nd.type

getPrefix(nd) ==
    IF nd.type = nodeTypeLeaf THEN <<>>
    ELSE IF nd.prefixLen > MaxInlinePrefixLength THEN nd.prefixPtr
    ELSE SubSeq(nd.prefix, 1, nd.prefixLen)

\* prefixLen is a uint16: n.prefixLen = uint16(length)
PrefixLenModulus == 2 ^ 16

\* the two writes of setPrefix: the length, then the bytes
setPrefixLen(nd, pre) ==
    IF nd.type = nodeTypeLeaf THEN nd
    ELSE [nd EXCEPT !.prefixLen = Len(pre) % PrefixLenModulus]

setPrefixBytes(nd, pre) ==
    IF nd.type = nodeTypeLeaf THEN nd
    ELSE IF Len(pre) <= MaxInlinePrefixLength
         THEN [nd EXCEPT !.prefix = pre \o Zeros(MaxInlinePrefixLength - Len(pre))]
         ELSE [nd EXCEPT !.prefixPtr = pre]

setPrefix(nd, pre) == setPrefixBytes(setPrefixLen(nd, pre), pre)

Capacity(nd) ==
    CASE nd.type = nodeType4 -> Cap4
      [] nd.type = nodeType16 -> Cap16
      [] nd.type = nodeType48 -> Cap48
      [] OTHER -> Cap256

\* full one child too early
isFullEarly(nd) ==
    nd.type \in {nodeType4, nodeType16, nodeType48} /\ nd.numOfChildren >= Capacity(nd) - 1

isFull(nd) ==
    CASE nd.type = nodeType4 -> nd.numOfChildren = Cap4
      [] nd.type = nodeType16 -> nd.numOfChildren = Cap16
      [] nd.type = nodeType48 -> nd.numOfChildren = Cap48
      [] OTHER -> FALSE

\* node.findChild(b): the index of the slot it returns a pointer to, -1 for nil
nodeFindChild(nd, b) ==
    CASE nd.type \in {nodeType4, nodeType16} ->
           LET hit == {i \in 0..(Len(nd.keys) - 1) : nd.keys[i + 1] = b}
           IN IF hit = {} THEN -1 ELSE CHOOSE i \in hit : \A j \in hit : i <= j
      [] nd.type = nodeType48 ->
           IF nd.childIndex[b + 1] # -1 THEN nd.childIndex[b + 1] ELSE -1
      [] nd.type = nodeType256 ->
           IF nd.childPtr[b + 1] # Nil THEN b ELSE -1
      [] OTHER -> -1

\* node.addChild(k, child) indexes past the arrays of a full node4/16/48
addChildPanics(nd) ==
    nd.type \in {nodeType4, nodeType16, nodeType48} /\ nd.numOfChildren >= Capacity(nd)

nodeAddChild(nd, b, child) ==
    CASE nd.type \in {nodeType4, nodeType16} ->
           [nd EXCEPT !.keys[nd.numOfChildren + 1] = b,
                      !.childPtr[nd.numOfChildren + 1] = child,
                      !.numOfChildren = nd.numOfChildren + 1]
      [] nd.type = nodeType48 ->
           [nd EXCEPT !.childIndex[b + 1] = nd.numOfChildren,
                      !.childPtr[nd.numOfChildren + 1] = child,
                      !.numOfChildren = nd.numOfChildren + 1]
      [] nd.type = nodeType256 ->
           [nd EXCEPT !.childPtr[b + 1] = child]
      [] OTHER -> nd

\* node.grow(): the successor, with a fresh zero version word
nodeGrow(nd) ==
    CASE nd.type = nodeType4 ->
           [nd EXCEPT !.type = nodeType16, !.ver = 0,
                      !.keys = nd.keys \o Zeros(Cap16 - Cap4),
                      !.childPtr = nd.childPtr \o Zeros(Cap16 - Cap4)]
      [] nd.type = nodeType16 ->
           [nd EXCEPT !.type = nodeType48, !.ver = 0,
                      !.keys = <<>>,
                      !.childIndex =
                          [b1 \in 1..Cap256 |->
                              LET hit == {i \in 0..(nd.numOfChildren - 1) : nd.keys[i + 1] = b1 - 1}
                              IN IF hit = {} THEN -1
                                 ELSE CHOOSE i \in hit : \A j \in hit : i >= j],
                      !.childPtr =
                          [i \in 1..Cap48 |->
                              IF i <= nd.numOfChildren THEN nd.childPtr[i] ELSE Nil]]
      [] nd.type = nodeType48 ->
           [nd EXCEPT !.type = nodeType256, !.ver = 0,
                      !.childIndex = <<>>,
                      !.numOfChildren = 0,
                      !.childPtr =
                          [b1 \in 1..Cap256 |->
                              IF nd.childIndex[b1] # -1
                              THEN nd.childPtr[nd.childIndex[b1] + 1] ELSE Nil]]
      [] OTHER -> nd

growLocked(nd) == [nodeGrow(nd) EXCEPT !.ver = setLockedBit(0)]

(***************************************************************************)
(* Helper functions of art.go                                              *)
(***************************************************************************)
loadKey(nd) == nd.key

checkPrefix(prefix, key, depth) ==
    LET stop == {n \in 0..(Len(prefix) - 1) :
                    n + depth >= Len(key) \/ key[n + depth + 1] # prefix[n + 1]}
    IN IF stop = {} THEN Len(prefix) ELSE CHOOSE n \in stop : \A m \in stop : n <= m

getCommonPrefix(s1, s2, depth) ==
    LET minLen == Min2(Len(s1), Len(s2))
        diff == {i \in depth..(minLen - 1) : s1[i + 1] # s2[i + 1]}
    IN IF diff = {} THEN Slice(s1, depth, minLen)
       ELSE Slice(s1, depth, CHOOSE i \in diff : \A j \in diff : i <= j)

\* s1[depth:minLen] with depth > minLen is a slice-bounds panic
getCommonPrefixPanics(s1, s2, depth) == depth > Min2(Len(s1), Len(s2))

\* addChild with 0x00 as the key-ends-here byte while findChild uses TerminationChar
addChildByteZeroEnd(key, pos) ==
    IF pos >= Len(key) \/ Len(key) = 0 THEN 0 ELSE key[pos + 1]

\* the edge byte addChild(parent, child, key, pos) registers the child under
addChildByte(key, pos) ==
    IF pos >= Len(key) \/ Len(key) = 0 THEN TerminationChar ELSE key[pos + 1]

addChild(nd, child, key, pos) == nodeAddChild(nd, addChildByte(key, pos), child)

\* the edge byte findChild(n, key, depth) looks up
findChildByte(key, depth) ==
    IF depth >= Len(key) THEN TerminationChar ELSE key[depth + 1]

\* findChild(n, key, depth) as a slot pointer into node id n
findChild(h, n, key, depth) ==
    LET i == nodeFindChild(h[n], findChildByte(key, depth))
    IN IF i = -1 THEN NilSlot ELSE [n |-> n, i |-> i]

(***************************************************************************)
(* Slots and the OLC primitives on the heap                                *)
(***************************************************************************)
ReadSlot(h, r, slot) == IF slot.n = 0 THEN r ELSE h[slot.n].childPtr[slot.i + 1]

WriteSlotHeap(h, slot, v) ==
    IF slot.n = 0 THEN h ELSE [h EXCEPT ![slot.n].childPtr[slot.i + 1] = v]

WriteSlotRoot(r, slot, v) == IF slot.n = 0 THEN v ELSE r

validate(h, n, version) == IF n = Nil THEN TRUE ELSE h[n].ver = version

\* a CAS that compares the counter and the obsolete bit only, not the lock bit
upgradeSucceedsOnLockedWord(h, n, version) ==
    n = Nil \/ h[n].ver \in {version, setLockedBit(version)}

\* a lock attempt that looks at the lock bit only, not at the expected word
upgradeSucceedsIfUnlocked(h, n, version) == n = Nil \/ ~IsLocked(h[n].ver)

\* the CAS of upgradeToWriteLockOrRestart: TRUE when the lock was taken
upgradeSucceeds(h, n, version) == n = Nil \/ h[n].ver = version

upgradeToWriteLock(h, n, version) ==
    IF n = Nil THEN h ELSE [h EXCEPT ![n].ver = setLockedBit(version)]

\* an unlock that clears the lock bit and leaves the counter as it was
writeUnlockKeepsCounter(h, n) ==
    IF n = Nil THEN h ELSE [h EXCEPT ![n].ver = h[n].ver - LOCK_BIT]

writeUnlock(h, n) ==
    IF n = Nil THEN h ELSE [h EXCEPT ![n].ver = h[n].ver + LOCK_INCREMENT]

\* an unlock of the predecessor that forgets the obsolete bit
writeUnlockObsoleteForgetsBit(h, n) ==
    IF n = Nil THEN h ELSE [h EXCEPT ![n].ver = h[n].ver + LOCK_INCREMENT]

writeUnlockObsolete(h, n) ==
    IF n = Nil THEN h
    ELSE [h EXCEPT ![n].ver = setObsoleteBit(h[n].ver) + LOCK_INCREMENT]

(***************************************************************************)
(* Thread-local state of one call of Tree.insert / Tree.search             *)
(***************************************************************************)
NoRes == [found |-> FALSE, val |-> NoVal]

IdleLocals ==
    [pc |-> "idle", op |-> "none", key |-> <<>>, val |-> NoVal, l |-> Nil,
     depth |-> 0, parent |-> Nil, parentVersion |-> 0, slot |-> RootSlot,
     tmp |-> Nil, version |-> 0, curNode |-> Nil, curPrefix |-> <<>>, p |-> 0,
     next |-> NilSlot, branch |-> "none", newNode |-> Nil, unl |-> <<>>,
     res |-> NoRes, seen |-> {}, su |-> FALSE, restarts |-> 0]

\* the label restart: of insert and of search
Restart(s, pc0) ==
    [s EXCEPT !.pc = pc0, !.parent = Nil, !.parentVersion = 0, !.depth = 0,
              !.slot = RootSlot, !.tmp = Nil, !.version = 0, !.curNode = Nil,
              !.curPrefix = <<>>, !.p = 0, !.next = NilSlot, !.branch = "none",
              !.newNode = Nil, !.unl = <<>>, !.restarts = 1]

Out(h, r, s) == [h |-> h, r |-> r, s |-> s]

\* the operation returns: the locals that no longer matter are cleared
Finish(s, res) ==
    [IdleLocals EXCEPT !.pc = "done", !.op = s.op, !.key = s.key, !.val = s.val,
                       !.res = res, !.seen = s.seen, !.su = s.su,
                       !.restarts = s.restarts]

Panic(s) == [s EXCEPT !.pc = "panic"]

\* pending unlocks, writeUnlock(nil) being a no-op
Unlocks(seq) == SelectSeq(seq, LAMBDA u : u.n # Nil)

\* after the last write of a branch: run the pending unlocks, or return
AfterWrite(h, r, s, unl) ==
    IF Unlocks(unl) = <<>> THEN Out(h, r, Finish(s, NoRes))
    ELSE Out(h, r, [s EXCEPT !.pc = "i_unlock", !.unl = Unlocks(unl)])

(***************************************************************************)
(* Tree.insert, art.go lines 44-158, one step per shared-memory access.    *)
(* h is the heap, r the root pointer t.node, s the caller's locals.        *)
(***************************************************************************)
\* line 51, the argument *curNodeAddress of readLockOrRestart
InsLoad(h, r, s) ==
    LET n == ReadSlot(h, r, s.slot)
    IN IF n = Nil THEN Out(h, r, [s EXCEPT !.version = 0, !.pc = "i_cur"])
       ELSE Out(h, r, [s EXCEPT !.tmp = n, !.pc = "i_await"])

\* lines 562-567: one load of awaitNodeUnlocked's loop, then the obsolete test;
\* tmp, the node the version was read from, is kept until line 55
InsAwait(h, r, s) ==
    LET ver == h[s.tmp].ver
    IN IF IsLocked(ver) THEN Out(h, r, s)
       ELSE IF IsObsolete(ver) THEN Out(h, r, Restart(s, "i_load"))
       ELSE Out(h, r, [s EXCEPT !.version = ver, !.pc = "i_cur"])

\* line 55: curNode := *curNodeAddress, and the dispatch on nil / leaf / inner
InsCur(h, r, s) ==
    LET n == ReadSlot(h, r, s.slot)
    IN IF n = Nil
       THEN Out(h, r, [s EXCEPT !.curNode = n, !.tmp = Nil, !.branch = "nil", !.pc = "i_lockp"])
       ELSE IF getType(h[n]) = nodeTypeLeaf
       THEN Out(h, r, [s EXCEPT !.curNode = n, !.tmp = Nil, !.branch = "leaf", !.pc = "i_lockp"])
       ELSE Out(h, r, [s EXCEPT !.curNode = n, !.tmp = Nil, !.pc = "i_prefix"])

\* the value of an equal key written once the parent is locked, before the leaf is
InsLockParentWriting(h, r, s) ==
    IF ~upgradeSucceeds(h, s.parent, s.parentVersion)
    THEN Out(h, r, Restart(s, "i_load"))
    ELSE Out(IF s.branch = "leaf" /\ h[s.curNode].key = s.key
             THEN [upgradeToWriteLock(h, s.parent, s.parentVersion)
                      EXCEPT ![s.curNode].val = h[s.l].val]
             ELSE upgradeToWriteLock(h, s.parent, s.parentVersion), r,
             [s EXCEPT !.pc = IF s.branch = "nil" THEN "i_nil_store" ELSE "i_lockc"])

\* lines 57, 66, 104, 131: upgradeToWriteLockOrRestart(parent, parentVersion)
InsLockParent(h, r, s) ==
    IF ~upgradeSucceeds(h, s.parent, s.parentVersion)
    THEN Out(h, r, Restart(s, "i_load"))
    ELSE Out(upgradeToWriteLock(h, s.parent, s.parentVersion), r,
             [s EXCEPT !.pc = IF s.branch = "nil" THEN "i_nil_store" ELSE "i_lockc"])

\* a lock that is waited for while the parent's lock is held
InsLockCurWaiting(h, r, s) ==
    IF IsLocked(h[s.curNode].ver) THEN Out(h, r, s)
    ELSE IF ~upgradeSucceeds(h, s.curNode, s.version)
    THEN IF s.parent = Nil THEN Out(h, r, Restart(s, "i_load"))
         ELSE Out(h, r, [s EXCEPT !.pc = "i_fail_unlockp"])
    ELSE Out(upgradeToWriteLock(h, s.curNode, s.version), r,
             [s EXCEPT !.pc = CASE s.branch = "leaf" -> "i_leaf_locked"
                                [] s.branch = "split" -> "i_ps_build"
                                [] OTHER -> "i_add_locked"])

\* lines 70, 108, 135: upgradeToWriteLockOrRestart(curNode, version)
InsLockCur(h, r, s) ==
    IF ~upgradeSucceeds(h, s.curNode, s.version)
    THEN IF s.parent = Nil THEN Out(h, r, Restart(s, "i_load"))
         ELSE Out(h, r, [s EXCEPT !.pc = "i_fail_unlockp"])
    ELSE Out(upgradeToWriteLock(h, s.curNode, s.version), r,
             [s EXCEPT !.pc = CASE s.branch = "leaf" -> "i_leaf_locked"
                                [] s.branch = "split" -> "i_ps_build"
                                [] OTHER -> "i_add_locked"])

\* goto restart with the parent still locked
InsFailKeepsParent(h, r, s) == Out(h, r, Restart(s, "i_load"))

\* lines 72, 110, 137: writeUnlock(parent); goto restart
InsFailUnlockParent(h, r, s) == Out(writeUnlock(h, s.parent), r, Restart(s, "i_load"))

\* lines 61-62: *curNodeAddress = l
InsNilStore(h, r, s) ==
    AfterWrite(WriteSlotHeap(h, s.slot, s.l), WriteSlotRoot(r, s.slot, s.l), s,
               <<[k |-> "u", n |-> s.parent]>>)

\* the node4 of lines 81-87, built before it is published
LeafSplitNode(h, s) ==
    LET key2 == loadKey(h[s.curNode])
        commonPrefix == getCommonPrefix(s.key, key2, s.depth)
        n0 == setPrefix(newNode4Locked, commonPrefix)
        depth == s.depth + n0.prefixLen
        n1 == addChild(n0, s.curNode, key2, depth)
    IN addChild(n1, s.l, s.key, depth)

\* the value assigned to a copy of the leaf: the heap is left as it was
StoreValToCopy(h, tgt, l) == h

\* line 76: (*curNodeAddress).(*leaf).val = l.val
StoreVal(h, tgt, l) == [h EXCEPT ![tgt].val = h[l].val]

\* the comparison of line 75
SameKey(leafKey, key) == leafKey = key

\* lines 75-87: under both locks, overwrite the value or build the split node
InsLeafLocked(h, r, s) ==
    IF SameKey(h[s.curNode].key, s.key)
    THEN LET tgt == ReadSlot(h, r, s.slot)
         IN IF tgt = Nil \/ getType(h[tgt]) # nodeTypeLeaf
            THEN Out(h, r, Panic(s))
            ELSE AfterWrite(StoreVal(h, tgt, s.l), r, s,
                            <<[k |-> "u", n |-> s.parent], [k |-> "u", n |-> s.curNode]>>)
    ELSE IF getCommonPrefixPanics(s.key, loadKey(h[s.curNode]), s.depth)
    THEN Out(h, r, Panic(s))
    ELSE Out(Append(h, LeafSplitNode(h, s)), r,
             [s EXCEPT !.newNode = Len(h) + 1, !.pc = "i_store",
                       !.unl = <<[k |-> "u", n |-> s.parent],
                                 [k |-> "u", n |-> s.curNode],
                                 [k |-> "u", n |-> Len(h) + 1]>>])

\* lines 88, 118, 143: *curNodeAddress = newNode
InsStore(h, r, s) ==
    AfterWrite(WriteSlotHeap(h, s.slot, s.newNode), WriteSlotRoot(r, s.slot, s.newNode),
               s, s.unl)

\* lines 97-98: the copy of curNode's prefix and checkPrefix
InsPrefix(h, r, s) ==
    LET curPrefix == getPrefix(h[s.curNode])
    IN Out(h, r, [s EXCEPT !.curPrefix = curPrefix,
                           !.p = checkPrefix(curPrefix, s.key, s.depth),
                           !.pc = "i_val1"])

\* lines 99-103 and 124
InsValidatePrefix(h, r, s) ==
    IF ~validate(h, s.curNode, s.version) THEN Out(h, r, Restart(s, "i_load"))
    ELSE IF s.p # Len(s.curPrefix)
    THEN Out(h, r, [s EXCEPT !.branch = "split", !.pc = "i_lockp"])
    ELSE Out(h, r, [s EXCEPT !.depth = s.depth + Len(s.curPrefix), !.pc = "i_find"])

\* a split node that receives the new leaf only
PrefixSplitNodeOneChild(s) ==
    setPrefix(addChild(newNode4Locked, s.l, s.key, s.depth + s.p), Slice(s.curPrefix, 0, s.p))

\* a split node whose prefix keeps the split byte: curPrefix[:p+1]
PrefixSplitNodeKeepsSplitByte(s) ==
    LET n1 == addChild(newNode4Locked, s.l, s.key, s.depth + s.p)
        n2 == addChild(n1, s.curNode, s.curPrefix, s.p)
    IN setPrefix(n2, Slice(s.curPrefix, 0, s.p + 1))

\* the node4 of lines 113-116
PrefixSplitNode(s) ==
    LET n1 == addChild(newNode4Locked, s.l, s.key, s.depth + s.p)
        n2 == addChild(n1, s.curNode, s.curPrefix, s.p)
    IN setPrefix(n2, Slice(s.curPrefix, 0, s.p))

InsPrefixSplitBuild(h, r, s) ==
    Out(Append(h, PrefixSplitNode(s)), r,
        [s EXCEPT !.newNode = Len(h) + 1, !.pc = "i_ps_setlen"])

\* the prefix curNode.setPrefix stores at line 117
TrimmedPrefix(s) == Slice(s.curPrefix, s.p, Len(s.curPrefix))

\* line 117, curNode.setPrefix(curPrefix[p:]): the write of prefixLen ...
InsPrefixSplitSetLen(h, r, s) ==
    Out([h EXCEPT ![s.curNode] = setPrefixLen(h[s.curNode], TrimmedPrefix(s))], r,
        [s EXCEPT !.pc = "i_ps_setpre"])

\* ... and the write of the prefix bytes
InsPrefixSplitSetBytes(h, r, s) ==
    Out([h EXCEPT ![s.curNode] = setPrefixBytes(h[s.curNode], TrimmedPrefix(s))], r,
        [s EXCEPT !.pc = "i_store",
                  !.unl = <<[k |-> "u", n |-> s.parent],
                            [k |-> "u", n |-> s.curNode],
                            [k |-> "u", n |-> s.newNode]>>])

\* line 125
InsFind(h, r, s) ==
    Out(h, r, [s EXCEPT !.next = findChild(h, s.curNode, s.key, s.depth), !.pc = "i_val2"])

\* lines 126-130 and 154-156
InsValidateFind(h, r, s) ==
    IF ~validate(h, s.curNode, s.version) THEN Out(h, r, Restart(s, "i_load"))
    ELSE IF s.next = NilSlot
    THEN Out(h, r, [s EXCEPT !.branch = "add", !.pc = "i_lockp"])
    ELSE Out(h, r, [s EXCEPT !.parent = s.curNode, !.parentVersion = s.version,
                             !.slot = s.next, !.next = NilSlot, !.curNode = Nil,
                             !.version = 0, !.curPrefix = <<>>, !.p = 0,
                             !.pc = "i_load"])

\* lines 140-151: grow and add to the successor, or add in place
InsAddLocked(h, r, s) ==
    IF isFull(h[s.curNode])
    THEN LET grown == growLocked(h[s.curNode])
         IN IF addChildPanics(grown) THEN Out(h, r, Panic(s))
            ELSE Out(Append(h, addChild(grown, s.l, s.key, s.depth)), r,
                     [s EXCEPT !.newNode = Len(h) + 1, !.pc = "i_store",
                               !.unl = <<[k |-> "u", n |-> s.parent],
                                         [k |-> "o", n |-> s.curNode],
                                         [k |-> "u", n |-> Len(h) + 1]>>])
    ELSE LET tgt == ReadSlot(h, r, s.slot)
         IN IF tgt = Nil \/ addChildPanics(h[tgt]) THEN Out(h, r, Panic(s))
            ELSE AfterWrite([h EXCEPT ![tgt] = addChild(h[tgt], s.l, s.key, s.depth)], r, s,
                            <<[k |-> "u", n |-> s.parent], [k |-> "u", n |-> s.curNode]>>)

\* one writeUnlock / writeUnlockObsolete of the closing sequence of a branch
InsUnlock(h, r, s) ==
    LET u == Head(s.unl)
        h1 == IF u.k = "o" THEN writeUnlockObsolete(h, u.n) ELSE writeUnlock(h, u.n)
    IN IF Tail(s.unl) = <<>> THEN Out(h1, r, Finish(s, NoRes))
       ELSE Out(h1, r, [s EXCEPT !.unl = Tail(s.unl)])

insert(h, r, s) ==
    CASE s.pc = "i_load" -> InsLoad(h, r, s)
      [] s.pc = "i_await" -> InsAwait(h, r, s)
      [] s.pc = "i_cur" -> InsCur(h, r, s)
      [] s.pc = "i_lockp" -> InsLockParent(h, r, s)
      [] s.pc = "i_lockc" -> InsLockCur(h, r, s)
      [] s.pc = "i_fail_unlockp" -> InsFailUnlockParent(h, r, s)
      [] s.pc = "i_nil_store" -> InsNilStore(h, r, s)
      [] s.pc = "i_leaf_locked" -> InsLeafLocked(h, r, s)
      [] s.pc = "i_store" -> InsStore(h, r, s)
      [] s.pc = "i_prefix" -> InsPrefix(h, r, s)
      [] s.pc = "i_val1" -> InsValidatePrefix(h, r, s)
      [] s.pc = "i_ps_build" -> InsPrefixSplitBuild(h, r, s)
      [] s.pc = "i_ps_setlen" -> InsPrefixSplitSetLen(h, r, s)
      [] s.pc = "i_ps_setpre" -> InsPrefixSplitSetBytes(h, r, s)
      [] s.pc = "i_find" -> InsFind(h, r, s)
      [] s.pc = "i_val2" -> InsValidateFind(h, r, s)
      [] s.pc = "i_add_locked" -> InsAddLocked(h, r, s)
      [] s.pc = "i_unlock" -> InsUnlock(h, r, s)
      [] OTHER -> Out(h, r, s)

InsertPcs ==
    {"i_load", "i_await", "i_cur", "i_lockp", "i_lockc", "i_fail_unlockp",
     "i_nil_store", "i_leaf_locked", "i_store", "i_prefix", "i_val1", "i_ps_build",
     "i_ps_setlen", "i_ps_setpre", "i_find", "i_val2", "i_add_locked", "i_unlock"}

(***************************************************************************)
(* Tree.search, art.go lines 160-218                                       *)
(***************************************************************************)
\* line 167: curNodeAddress == nil || *curNodeAddress == nil
SrchCheck(h, r, s) ==
    IF s.slot = NilSlot \/ ReadSlot(h, r, s.slot) = Nil
    THEN Out(h, r, Finish(s, NoRes))
    ELSE Out(h, r, [s EXCEPT !.pc = "s_load"])

\* line 170, the argument *curNodeAddress of readLockOrRestart
SrchLoad(h, r, s) ==
    LET n == ReadSlot(h, r, s.slot)
    IN IF n = Nil THEN Out(h, r, [s EXCEPT !.version = 0, !.pc = "s_cur"])
       ELSE Out(h, r, [s EXCEPT !.tmp = n, !.pc = "s_await"])

\* a read lock that counts its readers in the version word
SrchAwaitCounting(h, r, s) ==
    LET ver == h[s.tmp].ver
    IN IF IsLocked(ver) THEN Out(h, r, s)
       ELSE IF IsObsolete(ver) THEN Out(h, r, Restart(s, "s_check"))
       ELSE Out([h EXCEPT ![s.tmp].ver = ver + LOCK_INCREMENT], r,
                [s EXCEPT !.version = ver, !.pc = "s_cur"])

\* lines 562-567 for search: one load of awaitNodeUnlocked's loop, then the obsolete test
SrchAwait(h, r, s) ==
    LET ver == h[s.tmp].ver
    IN IF IsLocked(ver) THEN Out(h, r, s)
       ELSE IF IsObsolete(ver) THEN Out(h, r, Restart(s, "s_check"))
       ELSE Out(h, r, [s EXCEPT !.version = ver, !.pc = "s_cur"])

\* lines 174-178
SrchCur(h, r, s) ==
    LET n == ReadSlot(h, r, s.slot)
    IN IF n = Nil THEN Out(h, r, Finish(s, NoRes))
       ELSE IF getType(h[n]) = nodeTypeLeaf
       THEN Out(h, r, [s EXCEPT !.curNode = n, !.tmp = Nil, !.pc = "s_leaf_val"])
       ELSE Out(h, r, [s EXCEPT !.curNode = n, !.tmp = Nil, !.pc = "s_prefix"])

\* a comparison of the common length only
LeafMatchesUpToShorter(leafKey, key) ==
    \A i \in 1..Min2(Len(leafKey), Len(key)) : leafKey[i] = key[i]

\* the comparison of line 184
LeafMatches(leafKey, key) == leafKey = key

\* lines 180-187: validate, then compare the leaf's key
SrchLeafValidate(h, r, s) ==
    IF ~validate(h, s.curNode, s.version) THEN Out(h, r, Restart(s, "s_check"))
    ELSE IF LeafMatches(h[s.curNode].key, s.key)
    THEN Out(h, r, [s EXCEPT !.pc = "s_leaf_read"])
    ELSE Out(h, r, Finish(s, NoRes))

\* line 185: the read of curLeaf.val, after the validation
SrchLeafRead(h, r, s) ==
    Out(h, r, Finish(s, [found |-> TRUE, val |-> h[s.curNode].val]))

\* lines 189-192
SrchPrefix(h, r, s) ==
    LET pre == getPrefix(h[s.curNode])
        p == checkPrefix(pre, s.key, s.depth)
    IN Out(h, r, [s EXCEPT !.curPrefix = pre, !.p = p,
                           !.pc = IF p # Len(pre) THEN "s_val_mis" ELSE "s_prefix2"])

\* lines 193-197
SrchValidateMismatch(h, r, s) ==
    IF ~validate(h, s.curNode, s.version) THEN Out(h, r, Restart(s, "s_check"))
    ELSE Out(h, r, Finish(s, NoRes))

\* line 199: depth += len(curNode.getPrefix()), a second read of the prefix
SrchPrefixAgain(h, r, s) ==
    Out(h, r, [s EXCEPT !.depth = s.depth + Len(getPrefix(h[s.curNode])),
                        !.curPrefix = <<>>, !.p = 0, !.pc = "s_find"])

\* line 200
SrchFind(h, r, s) ==
    Out(h, r, [s EXCEPT !.next = findChild(h, s.curNode, s.key, s.depth), !.pc = "s_val"])

\* lines 201-208
SrchValidateFind(h, r, s) ==
    IF ~validate(h, s.curNode, s.version) THEN Out(h, r, Restart(s, "s_check"))
    ELSE IF s.next # NilSlot
    THEN Out(h, r, [s EXCEPT !.parent = s.curNode, !.parentVersion = s.version,
                             !.slot = s.next, !.next = NilSlot, !.curNode = Nil,
                             !.version = 0, !.pc = "s_check"])
    ELSE Out(h, r, [s EXCEPT !.pc = "s_val2"])

\* lines 210-217
SrchValidateAbsent(h, r, s) ==
    IF ~validate(h, s.curNode, s.version) THEN Out(h, r, Restart(s, "s_check"))
    ELSE Out(h, r, Finish(s, NoRes))

search(h, r, s) ==
    CASE s.pc = "s_check" -> SrchCheck(h, r, s)
      [] s.pc = "s_load" -> SrchLoad(h, r, s)
      [] s.pc = "s_await" -> SrchAwait(h, r, s)
      [] s.pc = "s_cur" -> SrchCur(h, r, s)
      [] s.pc = "s_leaf_val" -> SrchLeafValidate(h, r, s)
      [] s.pc = "s_leaf_read" -> SrchLeafRead(h, r, s)
      [] s.pc = "s_prefix" -> SrchPrefix(h, r, s)
      [] s.pc = "s_val_mis" -> SrchValidateMismatch(h, r, s)
      [] s.pc = "s_prefix2" -> SrchPrefixAgain(h, r, s)
      [] s.pc = "s_find" -> SrchFind(h, r, s)
      [] s.pc = "s_val" -> SrchValidateFind(h, r, s)
      [] s.pc = "s_val2" -> SrchValidateAbsent(h, r, s)
      [] OTHER -> Out(h, r, s)

SearchPcs ==
    {"s_check", "s_load", "s_await", "s_cur", "s_leaf_val", "s_leaf_read", "s_prefix",
     "s_val_mis", "s_prefix2", "s_find", "s_val", "s_val2"}

(***************************************************************************)
(* The public surface and the workloads                                    *)
(***************************************************************************)
\* an Insert whose value is NoVal in a script gets the number of the call as value
InsOp(key, val) == [op |-> "ins", key |-> key, val |-> val]

SrchOp(key) == [op |-> "srch", key |-> key, val |-> NoVal]

Pair(key, val) == [key |-> key, val |-> val]

\* history: started holds every Insert that was called, with the Inserts that had
\* returned before its call; completed the Inserts that have returned; ref the
\* value of the Insert that returned last, per key; th[t].seen the Inserts that
\* had returned when the operation of t was called
StartedKeys == {e.key : e \in started}

Quiet(t) == th[t].pc \in {"idle", "done"}

\* the setup operations are run by thread 1 alone, before any other call
SetupOver == setup = <<>> /\ (th[1].su => Quiet(1))

\* Tree.Insert, lines 219-227: the leaf is allocated, then insert starts at restart
CallInsert(t, o, su) ==
    LET val == IF o.val = NoVal THEN Cardinality(started) + 1 ELSE o.val
    IN /\ heap' = Append(heap, NewLeaf(o.key, val))
       /\ th' = [th EXCEPT ![t] = [IdleLocals EXCEPT !.pc = "i_load", !.op = "ins",
                                                     !.key = o.key, !.val = val,
                                                     !.l = Len(heap) + 1, !.su = su,
                                                     !.seen = completed]]
       /\ started' = started \cup {[key |-> o.key, val |-> val, seen |-> completed]}
       /\ UNCHANGED <<root, completed, ref>>

\* Tree.Search, lines 228-230
CallSearch(t, o, su) ==
    /\ th' = [th EXCEPT ![t] = [IdleLocals EXCEPT !.pc = "s_check", !.op = "srch",
                                                  !.key = o.key, !.seen = completed,
                                                  !.su = su]]
    /\ UNCHANGED <<heap, root, started, completed, ref>>

CallOp(t, o, su) == IF o.op = "ins" THEN CallInsert(t, o, su) ELSE CallSearch(t, o, su)

\* a thread starts its next operation, one of the set at the head of its script
Call(t) ==
    /\ Quiet(t)
    /\ IF setup # <<>>
       THEN /\ t = 1
            /\ \E o \in Head(setup) : CallOp(t, o, TRUE)
            /\ setup' = Tail(setup)
            /\ UNCHANGED todo
       ELSE /\ SetupOver
            /\ todo[t] # <<>>
            /\ \E o \in Head(todo[t]) : CallOp(t, o, FALSE)
            /\ todo' = [todo EXCEPT ![t] = Tail(todo[t])]
            /\ UNCHANGED setup

\* the reference map after the insert (key, val) has returned
RefPut(m, key, val) == {e \in m : e.key # key} \cup {Pair(key, val)}

\* one step of a running Insert
InsertStep(t) ==
    /\ th[t].pc \in InsertPcs
    /\ LET o == insert(heap, root, th[t])
       IN /\ heap' = o.h
          /\ root' = o.r
          /\ th' = [th EXCEPT ![t] = o.s]
          /\ completed' = IF o.s.pc = "done"
                          THEN completed \cup {Pair(th[t].key, th[t].val)} ELSE completed
          /\ ref' = IF o.s.pc = "done" THEN RefPut(ref, th[t].key, th[t].val) ELSE ref
    /\ UNCHANGED <<todo, setup, started>>

\* one step of a running Search
SearchStep(t) ==
    /\ th[t].pc \in SearchPcs
    /\ LET o == search(heap, root, th[t])
       IN /\ heap' = o.h
          /\ root' = o.r
          /\ th' = [th EXCEPT ![t] = o.s]
    /\ UNCHANGED <<todo, setup, started, completed, ref>>

Next == \E t \in Threads : Call(t) \/ InsertStep(t) \/ SearchStep(t)

\* NewART(), lines 38-42, with a workload
InitWith(su, td) ==
    /\ heap = <<>>
    /\ root = Nil
    /\ th = [t \in Threads |-> IdleLocals]
    /\ todo = td
    /\ setup = su
    /\ started = {}
    /\ completed = {}
    /\ ref = {}

(***************************************************************************)
(* Sequential workload: one thread, any MaxSeqOps operations over a few    *)
(* keys, among them the empty key, a key and its extension, a key that     *)
(* holds the byte 0x00 and one that ends in the byte 0xFF.                 *)
(***************************************************************************)
SeqKeys == {<<>>, <<1>>, <<1, 2>>, <<2>>, <<0>>, <<1, 255>>}

SeqOps == {InsOp(k, NoVal) : k \in SeqKeys} \cup {SrchOp(k) : k \in SeqKeys}

NoScript == [t \in Threads |-> <<>>]

InitSeq == InitWith(<<>>, [NoScript EXCEPT ![1] = [i \in 1..MaxSeqOps |-> SeqOps]])

SpecSeq == InitSeq /\ [][Next]_vars

(***************************************************************************)
(* General concurrent workload on the tree of NewART(): every thread runs  *)
(* OpsPerThread operations, each any Insert or Search over ConcKeys.       *)
(***************************************************************************)
ConcKeys == {<<1>>, <<1, 2>>, <<1, 255>>}

ConcOps == {InsOp(k, NoVal) : k \in ConcKeys} \cup {SrchOp(k) : k \in ConcKeys}

InitConc == InitWith(<<>>, [t \in Threads |-> [i \in 1..OpsPerThread |-> ConcOps]])

Spec == InitConc /\ [][Next]_vars

(***************************************************************************)
(* Fair workload: on a tree that holds <<1>>, one thread runs any Search   *)
(* and every other thread any Insert over FairKeys, under weak fairness of *)
(* every thread's steps (runtime.Gosched in awaitNodeUnlocked, and the Go  *)
(* scheduler, let every runnable goroutine take steps).                    *)
(***************************************************************************)
FairKeys == {<<1>>, <<1, 2>>}

InitFair ==
    InitWith(<<{InsOp(<<1>>, NoVal)}>>,
             [t \in Threads |-> IF t = 1 THEN <<{SrchOp(k) : k \in FairKeys}>>
                                ELSE <<{InsOp(k, NoVal) : k \in FairKeys}>>])

SpecFair ==
    /\ InitFair
    /\ [][Next]_vars
    /\ \A t \in Threads :
          WF_vars(Call(t)) /\ WF_vars(InsertStep(t)) /\ WF_vars(SearchStep(t))

(***************************************************************************)
(* Stale-slot workload: thread 1 populates the tree so that the root is a  *)
(* full node4 one child of which is an inner node with the prefix <<1, 2>>;*)
(* then one thread searches a stored key while two threads insert new keys *)
(* (<<5>> grows the root, <<1>> splits the prefix of the inner node).      *)
(***************************************************************************)
StaleSetup ==
    <<{InsOp(<<1, 2>>, NoVal)}, {InsOp(<<1, 2, 3>>, NoVal)}, {InsOp(<<2>>, NoVal)},
      {InsOp(<<3>>, NoVal)}, {InsOp(<<4>>, NoVal)}>>

StaleStored == {<<1, 2>>, <<1, 2, 3>>, <<2>>, <<3>>, <<4>>}

InitStale ==
    InitWith(StaleSetup,
             [t \in Threads |-> CASE t = 1 -> <<{SrchOp(k) : k \in StaleStored}>>
                                  [] t = 2 -> <<{InsOp(<<5>>, NoVal)}>>
                                  [] t = 3 -> <<{InsOp(<<1>>, NoVal)}>>
                                  [] OTHER -> <<>>])

SpecStale == InitStale /\ [][Next]_vars

(***************************************************************************)
(* Hotspot workload: the key <<1>> is stored (alone, or beside <<2>>);     *)
(* then every thread but the first overwrites it with a value of its own   *)
(* while the first thread searches it twice.                               *)
(***************************************************************************)
HotKey == <<1>>

HotSetup == <<{InsOp(HotKey, NoVal)}, {InsOp(<<2>>, NoVal), SrchOp(HotKey)}>>

InitHot ==
    InitWith(HotSetup,
             [t \in Threads |-> IF t = 1 THEN <<{SrchOp(HotKey)}, {SrchOp(HotKey)}>>
                                ELSE <<{InsOp(HotKey, NoVal)}>>])

SpecHot == InitHot /\ [][Next]_vars

(***************************************************************************)
(* Root-race workload on the tree of NewART(): two threads insert <<1>>,   *)
(* every other thread inserts <<2>>, and the first thread then searches    *)
(* any of the two keys.                                                    *)
(***************************************************************************)
RaceKeys == {<<1>>, <<2>>}

InitRace ==
    InitWith(<<>>,
             [t \in Threads |->
                 CASE t = 1 -> <<{InsOp(<<1>>, NoVal)}, {SrchOp(k) : k \in RaceKeys}>>
                   [] t = 2 -> <<{InsOp(<<1>>, NoVal)}>>
                   [] OTHER -> <<{InsOp(<<2>>, NoVal)}>>])

SpecRace == InitRace /\ [][Next]_vars

(***************************************************************************)
(* Detached-parent workload: thread 1 inserts ObsKey five times (the root  *)
(* leaf's version word becomes 16); then thread 1 inserts <<1, 2, 4>>      *)
(* (splits the leaf), <<1, 2, 5>> and <<1, 2, 6>> (fill the node4),        *)
(* <<1, 7>> (splits its prefix), <<1, 2, 9>> (grows it) and searches <<2>>,*)
(* while thread 2 inserts <<3>>; every other thread issues nothing.  Weak  *)
(* fairness of every thread's steps as in SpecFair.                        *)
(***************************************************************************)
ObsKey == <<1, 2, 3>>

InitObs ==
    InitWith([i \in 1..5 |-> {InsOp(ObsKey, NoVal)}],
             [t \in Threads |->
                 CASE t = 1 -> <<{InsOp(<<1, 2, 4>>, NoVal)}, {InsOp(<<1, 2, 5>>, NoVal)},
                                 {InsOp(<<1, 2, 6>>, NoVal)}, {InsOp(<<1, 7>>, NoVal)},
                                 {InsOp(<<1, 2, 9>>, NoVal)}, {SrchOp(<<2>>)}>>
                   [] t = 2 -> <<{InsOp(<<3>>, NoVal)}>>
                   [] OTHER -> <<>>])

SpecObs ==
    /\ InitObs
    /\ [][Next]_vars
    /\ \A t \in Threads :
          WF_vars(Call(t)) /\ WF_vars(InsertStep(t)) /\ WF_vars(SearchStep(t))

(***************************************************************************)
(* Full-root workload: thread 1 inserts ObsKey five times (the root leaf's *)
(* version word becomes 16); then thread 1 inserts <<1, 2, 4>> (splits the *)
(* leaf), ObsKey twice more (the node4 is locked as the parent each time), *)
(* <<1, 7>> (splits its prefix: a new root node4), <<1, 8>> and <<1, 9>>   *)
(* (fill the root node4) and searches ObsKey, while thread 2 inserts       *)
(* <<2, 9>>; every other thread issues nothing.                            *)
(***************************************************************************)
InitFull ==
    InitWith([i \in 1..5 |-> {InsOp(ObsKey, NoVal)}],
             [t \in Threads |->
                 CASE t = 1 -> <<{InsOp(<<1, 2, 4>>, NoVal)}, {InsOp(ObsKey, NoVal)},
                                 {InsOp(ObsKey, NoVal)}, {InsOp(<<1, 7>>, NoVal)},
                                 {InsOp(<<1, 8>>, NoVal)}, {InsOp(<<1, 9>>, NoVal)},
                                 {SrchOp(ObsKey)}>>
                   [] t = 2 -> <<{InsOp(<<2, 9>>, NoVal)}>>
                   [] OTHER -> <<>>])

SpecFull == InitFull /\ [][Next]_vars

(***************************************************************************)
(* Prefix workload: thread 1 inserts a key made of a run of PrefixLens     *)
(* equal bytes and the byte 3, then one made of such a run and the byte 4  *)
(* (a leaf split whose common prefix is the shorter run), then <<1, 2>> or *)
(* <<2>> (a prefix split, or a new child), and searches a key of the first *)
(* kind; another thread searches too.                                      *)
(***************************************************************************)
PrefixLens == {1, MaxInlinePrefixLength, MaxInlinePrefixLength + 1, MaxInlinePrefixLength + 2}

Run(k) == [i \in 1..k |-> 1]

PrefixSetup ==
    <<{InsOp(Run(k) \o <<3>>, NoVal) : k \in PrefixLens},
      {InsOp(Run(k) \o <<4>>, NoVal) : k \in PrefixLens},
      {InsOp(<<1, 2>>, NoVal), InsOp(<<2>>, NoVal)},
      {SrchOp(Run(k) \o <<3>>) : k \in PrefixLens}>>

InitPrefix ==
    InitWith(PrefixSetup,
             [t \in Threads |-> IF t = 2 THEN <<{SrchOp(<<1, 3>>)}>> ELSE <<>>])

SpecPrefix == InitPrefix /\ [][Next]_vars

(***************************************************************************)
(* Growth workload: thread 1 inserts the one-byte keys <<1>>, <<2>>, ...,  *)
(* <<GrowKeys>> one after the other, so that the root takes a new edge     *)
(* byte each time, and after each Insert searches any key stored so far;   *)
(* at the end the other threads search the first or the last key.          *)
(***************************************************************************)
GrowSetup ==
    [i \in 1..(2 * GrowKeys) |->
        IF i % 2 = 1 THEN {InsOp(<<(i + 1) \div 2>>, NoVal)}
        ELSE {SrchOp(<<k>>) : k \in 1..(i \div 2)}]

InitGrow ==
    InitWith(GrowSetup,
             [t \in Threads |-> IF t = 1 THEN <<>>
                                ELSE <<{SrchOp(<<1>>), SrchOp(<<GrowKeys>>)}>>])

SpecGrow == InitGrow /\ [][Next]_vars

(***************************************************************************)
(* Two-level workload: thread 1 stores <<1, 1, 1>>, <<1, 1, 2>> and        *)
(* <<2, 1>>, which gives a root node4 above a node4 above two leaves; then *)
(* one Insert adds a child to the lower node4 (parent: the root node),     *)
(* another overwrites a leaf below it (parent: the lower node4), and the   *)
(* third thread searches.                                                  *)
(***************************************************************************)
DeepSetup == <<{InsOp(<<1, 1, 1>>, NoVal)}, {InsOp(<<1, 1, 2>>, NoVal)}, {InsOp(<<2, 1>>, NoVal)}>>

InitDeep ==
    InitWith(DeepSetup,
             [t \in Threads |-> CASE t = 1 -> <<{InsOp(<<1, 1, 3>>, NoVal)}>>
                                  [] t = 2 -> <<{InsOp(<<1, 1, 1>>, NoVal)}>>
                                  [] OTHER -> <<{SrchOp(<<1, 1, 1>>), SrchOp(<<1, 1, 3>>)}>>])

SpecDeep == InitDeep /\ [][Next]_vars

(***************************************************************************)
(* Growth with an END edge: thread 1 stores the empty key and <<255>>,     *)
(* then the keys <<1>>, <<2>>, ... up to DupKeys of them, which grows the  *)
(* root node from node4 to node16 to node48, and searches the two first    *)
(* keys after each Insert; at the end the other threads search them too.   *)
(***************************************************************************)
DupKeys == 15

DupSearches == {SrchOp(<<>>), SrchOp(<<TerminationChar>>)}

DupSetup ==
    <<{InsOp(<<>>, NoVal)}, {InsOp(<<TerminationChar>>, NoVal)}>> \o
    [i \in 1..(2 * DupKeys) |->
        IF i % 2 = 1 THEN {InsOp(<<(i + 1) \div 2>>, NoVal)} ELSE DupSearches]

InitDup ==
    InitWith(DupSetup, [t \in Threads |-> IF t = 1 THEN <<>> ELSE <<DupSearches>>])

SpecDup == InitDup /\ [][Next]_vars

(***************************************************************************)
(* Shared-prefix workload of TestPrefixHandling: thread 1 inserts "test",  *)
(* "testing", "tester", "tea", "team" with the values 1..5 in this order,  *)
(* then searches any two of them.                                          *)
(***************************************************************************)
ShapeKeys ==
    << <<116, 101, 115, 116>>,
       <<116, 101, 115, 116, 105, 110, 103>>,
       <<116, 101, 115, 116, 101, 114>>,
       <<116, 101, 97>>,
       <<116, 101, 97, 109>> >>

ShapeSetup == [i \in 1..Len(ShapeKeys) |-> {InsOp(ShapeKeys[i], i)}]

ShapeSearches == {SrchOp(ShapeKeys[i]) : i \in 1..Len(ShapeKeys)}

InitShape ==
    InitWith(ShapeSetup,
             [t \in Threads |-> IF t = 1 THEN <<ShapeSearches, ShapeSearches>> ELSE <<>>])

SpecShape == InitShape /\ [][Next]_vars

(***************************************************************************)
(* Vocabulary of the properties                                            *)
(***************************************************************************)
SearchReturned(t) == th[t].pc = "done" /\ th[t].op = "srch"

AllQuiet == \A t \in Threads : Quiet(t)

Found(v) == [found |-> TRUE, val |-> v]

\* the Search that t has returned from agrees with the reference map
AgreesWithRef(t) == \A e \in ref : e.key = th[t].key => th[t].res = Found(e.val)

NoEndByte(k) == \A i \in 1..Len(k) : k[i] # TerminationChar

SafeKey(k) == \A i \in 1..Len(k) : k[i] # 0 /\ k[i] # TerminationChar

StrictPrefix(k1, k2) == Len(k1) < Len(k2) /\ SubSeq(k2, 1, Len(k1)) = k1

Children(nd) == {nd.childPtr[i] : i \in 1..Len(nd.childPtr)} \ {Nil}

\* the inner nodes below n with the depth reached after their prefix
RECURSIVE InnerAt(_, _, _)
InnerAt(h, n, d) ==
    IF n = Nil \/ h[n].type = nodeTypeLeaf THEN {}
    ELSE LET d2 == d + Len(getPrefix(h[n]))
         IN {[n |-> n, d |-> d2]} \cup UNION {InnerAt(h, c, d2) : c \in Children(h[n])}

\* the leaf of key k hangs under the END edge of the inner node where k ends
UnderEndEdge(k) ==
    \E x \in InnerAt(heap, root, 0) :
        /\ x.d = Len(k)
        /\ LET i == nodeFindChild(heap[x.n], TerminationChar)
           IN /\ i # -1
              /\ heap[x.n].childPtr[i + 1] # Nil
              /\ heap[heap[x.n].childPtr[i + 1]].type = nodeTypeLeaf
              /\ heap[heap[x.n].childPtr[i + 1]].key = k

(***************************************************************************)
(* C1  Sequential map equivalence over arbitrary byte keys: after any      *)
(* sequence of Inserts run one at a time, a Search of an inserted key      *)
(* returns the value of the last Insert on it and found = true.            *)
(***************************************************************************)
C1_SeqMapEquivalence == \A t \in Threads : SearchReturned(t) => AgreesWithRef(t)

(***************************************************************************)
(* C5  Keys may hold the byte 0x00: as long as no inserted key holds the   *)
(* END byte 0xFF, a Search of an inserted key returns its last value.      *)
(***************************************************************************)
C5_ZeroByteKeys ==
    (\A k \in StartedKeys : NoEndByte(k)) =>
        \A t \in Threads : (SearchReturned(t) /\ NoEndByte(th[t].key)) => AgreesWithRef(t)

C2_VisibleAfterReturn ==
    \A t \in Threads :
        SearchReturned(t) =>
            \A e \in th[t].seen :
                e.key = th[t].key =>
                    /\ th[t].res.found
                    /\ (\A f \in started : f.key = e.key => f.val = e.val)
                           => th[t].res.val = e.val

(***************************************************************************)
(* C3  Atomic root creation: an Insert that saw the root absent stores its *)
(* leaf into the root pointer only while the root is still absent, so it   *)
(* never overwrites a root another thread installed in the meantime.       *)
(***************************************************************************)
C3_AtomicRootCreation ==
    [][\A t \in Threads :
          (th[t].pc = "i_nil_store" /\ th[t].slot = RootSlot /\ th'[t].pc # "i_nil_store")
              => root = Nil]_vars

(***************************************************************************)
(* C6  Negative lookup: a Search of a key on which no Insert was ever      *)
(* called returns (nil, false).                                            *)
(***************************************************************************)
C6_NegativeLookup ==
    \A t \in Threads :
        (SearchReturned(t) /\ th[t].key \notin StartedKeys) => th[t].res = NoRes

\* a Search of a never-inserted key has returned from a tree that holds other keys,
\* one of them sharing its END edge
W6_NegativeLookup ==
    \E t \in Threads :
        /\ SearchReturned(t) /\ th[t].key \notin StartedKeys /\ th[t].res = NoRes
        /\ root # Nil /\ heap[root].type # nodeTypeLeaf
        /\ \E k \in StartedKeys : StrictPrefix(k, th[t].key)

(***************************************************************************)
(* C7  No foreign values: when Search(k) returns (v, true), an Insert of   *)
(* exactly (k, v) was called before the Search returned.                   *)
(***************************************************************************)
C7_NoForeignValues ==
    \A t \in Threads :
        (SearchReturned(t) /\ th[t].res.found) =>
            \E e \in started : e.key = th[t].key /\ e.val = th[t].res.val

(***************************************************************************)
(* C4  Stability of existing keys under concurrent structural change: a    *)
(* Search of a key stored before, on which no other Insert is ever called, *)
(* returns (its value, true) whatever splits and growth run beside it.     *)
(***************************************************************************)
C4_ExistingKeysStable ==
    \A t \in Threads :
        (SearchReturned(t) /\ ~th[t].su) =>
            \A e \in th[t].seen :
                (e.key = th[t].key /\ \A f \in started : f.key = e.key => f.val = e.val)
                    => th[t].res = Found(e.val)

(***************************************************************************)
(* C8  Hotspot key: while any number of threads overwrite a stored key,    *)
(* every Search of it finds it, with the value of an Insert that no other  *)
(* Insert on the key follows entirely before the Search was called; so     *)
(* once all Inserts have returned a Search returns one of their values.    *)
(***************************************************************************)
C8_HotspotKey ==
    \A t \in Threads :
        (SearchReturned(t) /\ ~th[t].su /\ th[t].key = HotKey) =>
            /\ th[t].res.found
            /\ \E e \in started :
                  /\ e.key = HotKey /\ e.val = th[t].res.val
                  /\ ~\E f \in started :
                        /\ f.key = HotKey
                        /\ Pair(f.key, f.val) \in th[t].seen
                        /\ Pair(e.key, e.val) \in f.seen

\* a Search called after two overwrites of the hot key had returned has found it,
\* and another Search ran while the overwrites were in progress
W8_HotspotKey ==
    /\ SearchReturned(1) /\ ~th[1].su /\ th[1].key = HotKey /\ th[1].res.found
    /\ todo[1] = <<>>
    /\ Cardinality({e \in th[1].seen : e.key = HotKey}) >= 3
    /\ th[1].res.val \in {e.val : e \in {f \in started : f.seen # {}}}

(***************************************************************************)
(* C9  Termination: with weak fairness on every thread's steps, every      *)
(* Insert and every Search of a finite workload eventually returns.        *)
(***************************************************************************)
AllReturned == AllQuiet /\ setup = <<>> /\ \A t \in Threads : todo[t] = <<>>

C9_Termination == <>AllReturned

(***************************************************************************)
(* The published tree: what the root pointer leads to through child slots  *)
(***************************************************************************)
RECURSIVE ReachFrom(_, _, _)
ReachFrom(h, front, seen) ==
    LET new == UNION {Children(h[n]) : n \in front} \ seen
    IN IF new = {} THEN seen ELSE ReachFrom(h, new, seen \cup new)

Reachable(h, r) == IF r = Nil THEN {} ELSE ReachFrom(h, {r}, {r})

ReachableLeaves == {n \in Reachable(heap, root) : heap[n].type = nodeTypeLeaf}

ReachableInner == {n \in Reachable(heap, root) : heap[n].type # nodeTypeLeaf}

(***************************************************************************)
(* C11  Unique leaf per key: in every quiescent state no two leaves that   *)
(* are reachable from the root store the same key.                         *)
(***************************************************************************)
C11_UniqueLeafPerKey ==
    AllQuiet => \A a, b \in ReachableLeaves : heap[a].key = heap[b].key => a = b

\* the occupied child slots of a node
ChildCount(nd) == Cardinality({i \in 1..Len(nd.childPtr) : nd.childPtr[i] # Nil})

(***************************************************************************)
(* C12  Minimum fan-out: in every reachable state every inner node that is *)
(* reachable from the root has at least two children, and a node that is   *)
(* about to be stored into a slot already has at least two.                *)
(***************************************************************************)
C12_MinimumFanOut ==
    /\ \A n \in ReachableInner : ChildCount(heap[n]) >= 2
    /\ \A t \in Threads : th[t].pc = "i_store" => ChildCount(heap[th[t].newNode]) >= 2

\* a node4 made by a prefix split is being published while another thread is at
\* work on the same tree, and a published inner node has exactly two children
W12_MinimumFanOut ==
    /\ \E t \in Threads :
          /\ th[t].pc = "i_store" /\ th[t].branch = "split"
          /\ \E u \in Threads \ {t} : ~Quiet(u)
    /\ \E n \in ReachableInner : ChildCount(heap[n]) = 2

(***************************************************************************)
(* Root-to-leaf paths                                                      *)
(***************************************************************************)
\* the edges findChild can follow out of a node: edge byte b, child c
EdgesOf(nd) ==
    CASE nd.type \in {nodeType4, nodeType16} ->
           {[b |-> nd.keys[i], c |-> nd.childPtr[i]] :
               i \in {j \in 1..Len(nd.keys) : nd.childPtr[j] # Nil}}
      [] nd.type = nodeType48 ->
           {[b |-> b1 - 1, c |-> nd.childPtr[nd.childIndex[b1] + 1]] :
               b1 \in {j \in 1..Len(nd.childIndex) :
                          nd.childIndex[j] # -1 /\ nd.childPtr[nd.childIndex[j] + 1] # Nil}}
      [] nd.type = nodeType256 ->
           {[b |-> b1 - 1, c |-> nd.childPtr[b1]] :
               b1 \in {j \in 1..Len(nd.childPtr) : nd.childPtr[j] # Nil}}
      [] OTHER -> {}

\* every descent from n to a leaf: the prefixes of the inner nodes passed and the
\* edge bytes taken out of them, in order
RECURSIVE Walks(_, _, _, _)
Walks(h, n, pres, eds) ==
    IF n = Nil THEN {}
    ELSE IF h[n].type = nodeTypeLeaf THEN {[leaf |-> n, pres |-> pres, eds |-> eds]}
    ELSE UNION {Walks(h, e.c, Append(pres, getPrefix(h[n])), Append(eds, e.b)) :
                   e \in EdgesOf(h[n])}

\* prefix, edge byte, prefix, edge byte, ... with the END edge adding no byte
RECURSIVE PrefixPlusEdge(_, _)
PrefixPlusEdge(w, i) ==
    IF i > Len(w.pres) THEN <<>>
    ELSE w.pres[i] \o (IF w.eds[i] = TerminationChar THEN <<>> ELSE <<w.eds[i]>>)
                   \o PrefixPlusEdge(w, i + 1)

\* the prefixes alone, up to the i-th inner node
RECURSIVE PrefixesUpTo(_, _)
PrefixesUpTo(w, i) == IF i = 0 THEN <<>> ELSE PrefixesUpTo(w, i - 1) \o w.pres[i]

\* the descent follows the leaf's key the way Tree.search reads it: the prefixes
\* are consecutive pieces of the key, and the edge taken out of a node is the key
\* byte right after that node's prefix (END when the key ends there); the edge
\* byte is not consumed, an inner child's prefix starts with it
FollowsKey(w, key) ==
    /\ Len(PrefixesUpTo(w, Len(w.pres))) <= Len(key)
    /\ SubSeq(key, 1, Len(PrefixesUpTo(w, Len(w.pres)))) = PrefixesUpTo(w, Len(w.pres))
    /\ \A i \in 1..Len(w.eds) : w.eds[i] = findChildByte(key, Len(PrefixesUpTo(w, i)))

(***************************************************************************)
(* C13  Path invariant as the spec states it: in every quiescent state,    *)
(* for every reachable leaf, each inner node's prefix followed by the edge *)
(* byte taken (END adding no byte), concatenated along the path, is        *)
(* exactly the leaf's key.                                                 *)
(***************************************************************************)
C13_PathInvariantAsStated ==
    AllQuiet =>
        \A w \in Walks(heap, root, <<>>, <<>>) : PrefixPlusEdge(w, 1) = heap[w.leaf].key

(***************************************************************************)
(* C13 read in the convention of the code (the split byte stays in the old *)
(* node's prefix, depth is not advanced past an edge, a leaf holds its     *)
(* whole key): in every quiescent state, for every reachable leaf, the     *)
(* prefixes of the inner nodes on its path, concatenated without the edge  *)
(* bytes, are a prefix of the leaf's key, and the edge taken out of each   *)
(* inner node is the key byte right after that node's prefix, END when the *)
(* key ends there.  It holds when Inserts run one at a time (SpecSeq) and  *)
(* fails with overlapping Inserts (SpecObs).                               *)
(***************************************************************************)
C13_PathInvariantOfCode ==
    AllQuiet =>
        \A w \in Walks(heap, root, <<>>, <<>>) : FollowsKey(w, heap[w.leaf].key)

\* the smallest node class that holds c children
SmallestClass(c) ==
    IF c <= Cap4 THEN nodeType4
    ELSE IF c <= Cap16 THEN nodeType16
    ELSE IF c <= Cap48 THEN nodeType48
    ELSE nodeType256

C15_SharedPrefixShape ==
    SetupOver =>
        /\ root # Nil /\ heap[root].type # nodeTypeLeaf
        /\ getPrefix(heap[root]) = <<116, 101>>
        /\ ChildCount(heap[root]) = 2
        /\ {e.b : e \in EdgesOf(heap[root])} = {97, 115}
        /\ \A t \in Threads :
              (SearchReturned(t) /\ ~th[t].su) =>
                  \E i \in 1..Len(ShapeKeys) : th[t].key = ShapeKeys[i] /\ th[t].res = Found(i)

\* the five keys are stored and "team", the last one, has just been found with 5
W15_SharedPrefixShape ==
    /\ SetupOver /\ AllQuiet /\ todo[1] = <<>>
    /\ Cardinality(ReachableLeaves) = 5
    /\ th[1].key = ShapeKeys[5] /\ th[1].res = Found(5)

(***************************************************************************)
(* Lock scopes                                                             *)
(***************************************************************************)
\* the nodes a thread holds write-locked at its position in Tree.insert: taken by
\* a successful upgradeToWriteLockOrRestart, or created locked (newNode4Locked,
\* growLocked), and not yet released by writeUnlock / writeUnlockObsolete; every
\* panic of Tree.insert is raised under both locks, none of which is released
HeldBy(s) ==
    CASE s.pc \in {"i_lockc", "i_fail_unlockp", "i_nil_store"} -> {s.parent} \ {Nil}
      [] s.pc \in {"i_leaf_locked", "i_ps_build", "i_add_locked", "panic"} ->
           {s.parent, s.curNode} \ {Nil}
      [] s.pc \in {"i_ps_setlen", "i_ps_setpre"} -> {s.parent, s.curNode, s.newNode} \ {Nil}
      [] s.pc \in {"i_store", "i_unlock"} -> {s.unl[i].n : i \in 1..Len(s.unl)} \ {Nil}
      [] OTHER -> {}

\* the step of t is a successful upgradeToWriteLockOrRestart on node n
UpgradeTaken(t, n) ==
    \/ /\ th[t].pc = "i_lockp" /\ n = th[t].parent /\ n # Nil
       /\ th'[t].pc \in {"i_nil_store", "i_lockc"}
    \/ /\ th[t].pc = "i_lockc" /\ n = th[t].curNode /\ n # Nil
       /\ th'[t].pc \in {"i_leaf_locked", "i_ps_build", "i_add_locked"}

CleanWord(v) == ~IsLocked(v) /\ ~IsObsolete(v)

(***************************************************************************)
(* C16  Write-lock mutual exclusion: no node is held write-locked by two   *)
(* threads at once, and an upgradeToWriteLockOrRestart succeeds only on a  *)
(* version word whose lock bit and obsolete bit are both clear.            *)
(***************************************************************************)
C16_WriteLockExclusion ==
    /\ [](\A t, u \in Threads : t # u => HeldBy(th[t]) \cap HeldBy(th[u]) = {})
    /\ [][\A t \in Threads : \A n \in 1..Len(heap) :
             UpgradeTaken(t, n) => CleanWord(heap[n].ver)]_vars

\* one thread holds a node that another thread is about to upgrade, or waits for
W16_WriteLockExclusion ==
    \E t, u \in Threads :
        /\ t # u
        /\ \E n \in HeldBy(th[t]) :
              \/ th[u].pc = "i_lockc" /\ th[u].curNode = n
              \/ th[u].pc = "i_lockp" /\ th[u].parent = n

\* the nodes of HeldBy(s) that were taken by upgradeToWriteLockOrRestart: all but
\* the node the thread created locked
UpgradedBy(s) == HeldBy(s) \ {s.newNode}

\* the version counter: the word without the lock bit and the obsolete bit
Counter(v) == v \div 4

\* the step releases node n, which thread t held
Released(t, n) == n \in HeldBy(th[t]) /\ n \notin HeldBy(th'[t])

\* what a step may do to the version word of node n: nothing, take the lock by a
\* successful upgrade (counter unchanged), or end the scope of the thread that
\* holds n (lock bit cleared, counter one higher)
VersionStep(n) ==
    \/ heap'[n].ver = heap[n].ver
    \/ /\ \E t \in Threads : UpgradeTaken(t, n)
       /\ ~IsLocked(heap[n].ver) /\ IsLocked(heap'[n].ver)
       /\ Counter(heap'[n].ver) = Counter(heap[n].ver)
    \/ /\ \E t \in Threads : Released(t, n)
       /\ IsLocked(heap[n].ver) /\ ~IsLocked(heap'[n].ver)
       /\ Counter(heap'[n].ver) = Counter(heap[n].ver) + 1

(***************************************************************************)
(* C17 as stated: a node's lock bit is set only between a successful       *)
(* upgradeToWriteLockOrRestart on it and the matching writeUnlock or       *)
(* writeUnlockObsolete by the same thread.                                 *)
(***************************************************************************)
C17_LockScopeAsStated ==
    \A n \in 1..Len(heap) :
        IsLocked(heap[n].ver) => \E t \in Threads : n \in UpgradedBy(th[t])

(***************************************************************************)
(* C17 as amended: a node's lock bit is set exactly while one thread is    *)
(* between taking the node (by a successful upgradeToWriteLockOrRestart,   *)
(* or by creating it locked with newNode4Locked / growLocked) and its      *)
(* matching writeUnlock / writeUnlockObsolete; the version counter grows   *)
(* by exactly one at the end of each such scope and never otherwise, and   *)
(* no version word ever decreases.                                         *)
(***************************************************************************)
C17_LockScopeAndCounter ==
    /\ [](\A n \in 1..Len(heap) :
             IsLocked(heap[n].ver) <=> \E t \in Threads : n \in HeldBy(th[t]))
    /\ [][\A n \in 1..Len(heap) : VersionStep(n) /\ heap'[n].ver >= heap[n].ver]_vars

\* a node has been through a write-lock scope and is in its second, taken by an
\* upgrade, while a node the same thread created locked has not been unlocked yet
W17_LockScopeAndCounter ==
    \E t \in Threads :
        /\ \E n \in UpgradedBy(th[t]) : Counter(heap[n].ver) >= 1 /\ IsLocked(heap[n].ver)
        /\ th[t].newNode # Nil /\ th[t].newNode \in HeldBy(th[t])
        /\ heap[th[t].newNode].ver = setLockedBit(0)

(***************************************************************************)
(* C18  Unlock arithmetic: on a version word v with the lock bit set and   *)
(* the obsolete bit clear, writeUnlock gives a word with both bits clear   *)
(* and the counter of v plus one, and writeUnlockObsolete gives, in one    *)
(* step, a word with the lock bit clear, the obsolete bit set and the      *)
(* counter of v plus one.                                                  *)
(***************************************************************************)
C18_UnlockArithmetic ==
    \A n \in 1..Len(heap) :
        (IsLocked(heap[n].ver) /\ ~IsObsolete(heap[n].ver)) =>
            LET v == heap[n].ver
                u == writeUnlock(heap, n)[n].ver
                o == writeUnlockObsolete(heap, n)[n].ver
            IN /\ ~IsLocked(u) /\ ~IsObsolete(u) /\ Counter(u) = Counter(v) + 1
               /\ ~IsLocked(o) /\ IsObsolete(o) /\ Counter(o) = Counter(v) + 1

\* the node48 root is about to be unlocked obsolete after thirty write-lock scopes
W18_UnlockArithmetic ==
    \E t \in Threads :
        /\ th[t].pc = "i_unlock" /\ Head(th[t].unl).k = "o"
        /\ heap[Head(th[t].unl).n].type = nodeType48
        /\ IsLocked(heap[Head(th[t].unl).n].ver)
        /\ Counter(heap[Head(th[t].unl).n].ver) >= 30

(***************************************************************************)
(* C19  Obsolete is final: once the obsolete bit of a node is set, no step *)
(* of any operation changes the node again: not its version word (so the   *)
(* bit is never cleared and the node never locked again), not its prefix,  *)
(* its child slots or its child count.                                     *)
(***************************************************************************)
C19_ObsoleteIsFinal ==
    [][\A n \in 1..Len(heap) : IsObsolete(heap[n].ver) => heap'[n] = heap[n]]_vars

\* an Insert that went through a node before it was replaced is about to try the
\* upgrade on it, now that it is obsolete
W19_ObsoleteIsFinal ==
    \E t \in Threads :
        /\ th[t].pc = "i_lockp" /\ th[t].parent # Nil
        /\ IsObsolete(heap[th[t].parent].ver)

(***************************************************************************)
(* C20  No obsolete node in the published tree: in every reachable state   *)
(* no node that the root pointer leads to through child slots has its      *)
(* obsolete bit set; the predecessor of a grown node is marked obsolete    *)
(* only after the slot that pointed to it has been swung.                  *)
(***************************************************************************)
C20_NoObsoleteNodePublished ==
    \A n \in Reachable(heap, root) : ~IsObsolete(heap[n].ver)

(***************************************************************************)
(* Writes of a step                                                        *)
(***************************************************************************)
\* the step is taken by thread t
StepOf(t) == th'[t] # th[t]

\* the step of t is the store *curNodeAddress = newNode of a leaf split, a prefix
\* split or a growth (lines 88, 118, 143)
SwingBy(t) == th[t].pc = "i_store" /\ StepOf(t)

\* the node the slot of t points to before the step
Replaced(t) == ReadSlot(heap, root, th[t].slot)

(***************************************************************************)
(* C21  Pointer swing under both locks: every store of a new node into a   *)
(* child slot or into the root pointer by a leaf split, a prefix split or  *)
(* a growth is made by a thread that holds the write lock of the node the  *)
(* slot pointed to and, when the slot is a child slot, the write lock of   *)
(* the node that owns the slot; the root pointer is replaced only while    *)
(* the current root node is write-locked by the writer.                    *)
(***************************************************************************)
C21_SwingUnderBothLocks ==
    [][\A t \in Threads :
          SwingBy(t) =>
              /\ Replaced(t) # Nil => Replaced(t) \in HeldBy(th[t])
              /\ th[t].slot.n # 0 => th[t].slot.n \in HeldBy(th[t])]_vars

\* what a node holds apart from its version word
Content(nd) == [nd EXCEPT !.ver = 0]

\* the step changes the content of node n: a leaf's value, an inner node's prefix,
\* keys, child slots or child count
Mutated(n) == Content(heap'[n]) # Content(heap[n])

(***************************************************************************)
(* C22  Mutation only under lock: every change of the content of a node    *)
(* that the root pointer leads to (a leaf's value, an inner node's prefix, *)
(* keys, child slots or child count) is made by a thread that holds the    *)
(* write lock of that node at the moment of the change.                    *)
(***************************************************************************)
C22_MutationUnderLock ==
    [][\A n \in Reachable(heap, root) :
          Mutated(n) => \E t \in Threads : StepOf(t) /\ n \in HeldBy(th[t])]_vars

(***************************************************************************)
(* Searches among themselves                                               *)
(***************************************************************************)
\* the step of t is a step of Tree.search
SearchStepBy(t) == th[t].pc \in SearchPcs /\ StepOf(t)

\* every Insert ever called had returned before the operation of t was called
NoInsertOverlap(t) == {Pair(e.key, e.val) : e \in started} = th[t].seen

\* Tree.search run to its end by one caller with nothing else running
RECURSIVE RunSearch(_, _, _)
RunSearch(h, r, s) == IF s.pc = "done" THEN s.res ELSE RunSearch(h, r, search(h, r, s).s)

\* the result of a sequential lookup of key in the tree (h, r)
Lookup(h, r, key) ==
    RunSearch(h, r, [IdleLocals EXCEPT !.pc = "s_check", !.op = "srch", !.key = key])

(***************************************************************************)
(* C23  Search is read-only: no step of Search changes the root pointer or *)
(* any node (version word, prefix, children, value); a Search that runs    *)
(* beside Searches only returns what a sequential lookup of its key        *)
(* returns, and it restarts only when an Insert has left an obsolete node  *)
(* in the tree, never because of another Search.                           *)
(***************************************************************************)
C23_SearchReadOnly ==
    /\ [][\A t \in Threads : SearchStepBy(t) => heap' = heap /\ root' = root]_vars
    /\ [](\A t \in Threads :
             th[t].op = "srch" /\ NoInsertOverlap(t) =>
                 /\ th[t].restarts = 0
                       \/ \E n \in Reachable(heap, root) : IsObsolete(heap[n].ver)
                 /\ SearchReturned(t) => th[t].res = Lookup(heap, root, th[t].key))

\* two Searches overlap on the node256 root: one has returned its value, the
\* other is between its two validations
W23_SearchReadOnly ==
    \E t, u \in Threads :
        /\ t # u /\ ~th[t].su /\ ~th[u].su
        /\ SearchReturned(t) /\ th[t].res.found
        /\ th[u].op = "srch" /\ th[u].pc \in {"s_find", "s_val", "s_leaf_val"}
        /\ root # Nil /\ heap[root].type = nodeType256

(***************************************************************************)
(* Parent validation                                                       *)
(***************************************************************************)
\* the step of t goes back to the label restart
RestartBy(t) ==
    /\ StepOf(t)
    /\ th'[t].pc = (IF th[t].op = "ins" THEN "i_load" ELSE "s_check")
    /\ th'[t].slot = RootSlot /\ th'[t].parent = Nil /\ th'[t].restarts = 1

\* t has read the version of the child in its slot and is about to use the child
\* (lines 55 and 174), the owner of the slot being the parent it came through
ChildVersionRead(t) == th[t].pc \in {"i_cur", "s_cur"} /\ th[t].parent # Nil

\* the parent is as it was when its version was captured
ParentUnchanged(t) == heap[th[t].parent].ver = th[t].parentVersion

(***************************************************************************)
(* C24  Parent validation on descent: in Search and in Insert, once the    *)
(* version of a child has been read, a traversal whose parent was modified *)
(* or marked obsolete after the parent's version was captured restarts     *)
(* from the root instead of using the child (comparing its prefix or key,  *)
(* returning a result, descending further).                                *)
(***************************************************************************)
C24_ParentValidation ==
    [][\A t \in Threads :
          ChildVersionRead(t) /\ StepOf(t) /\ ~ParentUnchanged(t) => RestartBy(t)]_vars

(***************************************************************************)
(* The node behind a version                                               *)
(***************************************************************************)
\* t executes curNode := *curNodeAddress (lines 55 and 174)
TakesCurNode(t) == th[t].pc \in {"i_cur", "s_cur"} /\ StepOf(t)

\* the node that readLockOrRestart of lines 51 and 170 was given as *curNodeAddress
\* (Nil for a nil slot, whose version is 0)
VersionedNode(t) == th[t].tmp

(***************************************************************************)
(* C25  Version belongs to the inspected node: in every traversal step of  *)
(* Insert and of Search, the node whose version readLockOrRestart has     *)
(* read from the slot and the node that the following curNode := *slot    *)
(* assigns are the same node.                                              *)
(***************************************************************************)
C25_VersionOfCurNode ==
    [][\A t \in Threads :
          TakesCurNode(t) => ReadSlot(heap, root, th[t].slot) = VersionedNode(t)]_vars

(***************************************************************************)
(* Leaked locks                                                            *)
(***************************************************************************)
\* the step of t is a goto restart of Tree.insert or its return
InsertLeavesBy(t) ==
    /\ th[t].op = "ins"
    /\ StepOf(t)
    /\ RestartBy(t) \/ th'[t].pc = "done"

\* the nodes t may have locked in the attempt it is leaving
LockedInAttempt(t) == (HeldBy(th[t]) \cup {th[t].parent, th[t].curNode, th[t].newNode}) \ {Nil}

LockedNodes == {n \in DOMAIN heap : IsLocked(heap[n].ver)}

(***************************************************************************)
(* C26  No lock is leaked: when an Insert jumps to restart or returns, the *)
(* thread holds no write lock: a node it locked or created locked in that  *)
(* attempt is unlocked after the step, unless another thread has locked it *)
(* since. In particular the parent is unlocked before the restart that     *)
(* follows a failed CAS on the current node, and the new node4 or grown    *)
(* node is unlocked before Insert returns. At any time every locked node   *)
(* is held by a thread inside an Insert.                                   *)
(***************************************************************************)
C26_NoLockLeaked ==
    /\ [][\A t \in Threads :
             InsertLeavesBy(t) =>
                 \A n \in LockedInAttempt(t) :
                     IsLocked(heap'[n].ver) =>
                         \E u \in Threads \ {t} : n \in HeldBy(th[u])]_vars
    /\ [](\A n \in LockedNodes : \E t \in Threads : n \in HeldBy(th[t]))
    /\ [](\A t \in Threads : th[t].pc \in {"idle", "done", "i_load"} => HeldBy(th[t]) = {})

\* all calls of the two-level workload have returned and no node is locked; the
\* root node, which only the Insert of <<1, 1, 3>> locks (once when it succeeds),
\* has been through a further lock scope: that Insert locked it, failed on the
\* node below, unlocked it and restarted
W26_NoLockLeaked ==
    /\ AllReturned
    /\ LockedNodes = {}
    /\ root # Nil /\ heap[root].type = nodeType4
    /\ Counter(heap[root].ver) > 2
    /\ \E t \in Threads : th[t].op = "ins" /\ th[t].restarts = 1

(***************************************************************************)
(* Waiting and locking                                                     *)
(***************************************************************************)
\* t is in the loop of awaitNodeUnlocked and the node it watches is locked
Waiting(t) == th[t].pc \in {"i_await", "s_await"} /\ IsLocked(heap[th[t].tmp].ver)

WaitsFor(t, u) == Waiting(t) /\ th[t].tmp \in HeldBy(th[u])

\* t is at one of its upgradeToWriteLockOrRestart calls
AtUpgrade(t) == th[t].pc \in {"i_lockp", "i_lockc"}

\* the call at which t stands ends at once, by taking the lock or by failing
UpgradeEnds(t) == insert(heap, root, th[t]).s.pc # th[t].pc

(***************************************************************************)
(* C27  No waiting while holding a lock: write locks are taken only by one *)
(* CAS that never blocks, the parent's before the child's; a thread in the *)
(* wait loop of awaitNodeUnlocked holds no write lock; hence in no         *)
(* reachable state is there a set of threads each of which waits for a     *)
(* lock held by another member of the set.                                 *)
(***************************************************************************)
C27_NoWaitUnderLock ==
    /\ [](\A t \in Threads : AtUpgrade(t) => UpgradeEnds(t))
    /\ [][\A t \in Threads : \A n \in DOMAIN heap :
             /\ UpgradeTaken(t, n) /\ n = th[t].curNode =>
                    th[t].parent = Nil \/ th[t].parent \in HeldBy(th[t])
             /\ UpgradeTaken(t, n) /\ n = th[t].parent => HeldBy(th[t]) = {}]_vars
    /\ [](\A t \in Threads :
             th[t].pc \in {"i_await", "s_await"} =>
                 /\ HeldBy(th[t]) = {}
                 /\ \A n \in LockedNodes : \E u \in Threads \ {t} : n \in HeldBy(th[u]))
    /\ [](\A S \in (SUBSET Threads) \ {{}} :
             ~(\A t \in S : \E u \in S : WaitsFor(t, u)))

\* a Search or an Insert waits at a node that another Insert holds together
\* with its parent, both taken by upgrade
W27_NoWaitUnderLock ==
    \E t, u \in Threads :
        /\ WaitsFor(t, u)
        /\ th[u].parent # Nil /\ th[u].curNode # Nil
        /\ {th[u].parent, th[u].curNode} \subseteq HeldBy(th[u])

(***************************************************************************)
(* Installation of new inner nodes                                         *)
(***************************************************************************)
\* the node4 of a split or the grown node that t has built and not yet released
BuiltBy(t) == IF th[t].pc \in {"i_ps_setlen", "i_ps_setpre", "i_store", "i_unlock"}
              THEN {th[t].newNode} \cap HeldBy(th[t]) ELSE {}

\* version counter 0 with the lock bit set: the word newNode4Locked and growLocked store
CreatedLocked(n) == heap[n].ver = setLockedBit(0)

\* created locked, complete before the swing and locked through it
C28_BuiltBeforeSwing ==
    [][\A t \in Threads :
          SwingBy(t) =>
              /\ CreatedLocked(th[t].newNode)
              /\ ChildCount(heap[th[t].newNode]) >= 2
              /\ heap'[th[t].newNode] = heap[th[t].newNode]
              /\ ReadSlot(heap', root', th[t].slot) = th[t].newNode]_vars

\* nothing is written into the new node from the swing to its unlock
C28_CompleteWhileLocked ==
    [][\A t \in Threads : \A n \in BuiltBy(t) :
          th[t].pc \in {"i_store", "i_unlock"} => Content(heap'[n]) = Content(heap[n])]_vars

\* unlock order: parent, predecessor, new node
C28_UnlockedLast ==
    [][\A t \in Threads : \A n \in BuiltBy(t) :
          /\ Released(t, n) => HeldBy(th[t]) = {n}
          /\ th[t].curNode # Nil /\ Released(t, th[t].curNode) =>
                 th[t].parent \notin HeldBy(th[t])
          /\ StepOf(t) /\ ~Released(t, n) => CreatedLocked(n)']_vars

\* whoever has taken the new node as its current node or as its parent did so after
\* the unlock of the node
C28_ReaderWaits ==
    \A t \in Threads : \A n \in {th[t].curNode, th[t].parent} \ {Nil} :
        th[t].op \in {"ins", "srch"} /\ n \notin HeldBy(th[t]) => ~CreatedLocked(n)

(***************************************************************************)
(* C28  Installation of new inner nodes: the node4 of a leaf split or of a *)
(* prefix split and a grown node are created with version counter 0 and   *)
(* the lock bit set, have their prefix and children before the slot is     *)
(* swung to them, are locked while they become reachable and are unlocked  *)
(* last, after the parent and then the predecessor; a reader that reaches  *)
(* such a node before its unlock waits and never sees it partially built.  *)
(***************************************************************************)
C28_InstallNewNode ==
    /\ C28_BuiltBeforeSwing
    /\ C28_CompleteWhileLocked
    /\ C28_UnlockedLast
    /\ []C28_ReaderWaits

(***************************************************************************)
(* Prefix-mismatch split                                                   *)
(***************************************************************************)
\* t builds the node4 of a prefix split (lines 113-116), both locks held
SplitBuildBy(t) == th[t].pc = "i_ps_build" /\ StepOf(t)

\* the prefix of the node N that t splits, as the node holds it
PrefixOfSplit(t) == getPrefix(heap[th[t].curNode])

\* byte i (from 0) of key, END past its last byte
ByteOrEnd(key, i) == IF i >= Len(key) THEN TerminationChar ELSE key[i + 1]

\* t is inside a prefix split, from the build to the unlock of the new node
InPrefixSplit(t) ==
    \/ th[t].pc \in {"i_ps_build", "i_ps_setlen", "i_ps_setpre"}
    \/ th[t].pc \in {"i_store", "i_unlock"} /\ th[t].branch = "split"

(***************************************************************************)
(* C29  Prefix-mismatch split, new node: when Insert of key K at depth d   *)
(* meets an inner node N whose prefix matches K on only p < |N.prefix|     *)
(* leading bytes, the new node4 has the prefix N.prefix[0..p] and exactly  *)
(* two children, the new leaf under the edge byte K[d+p] (END when         *)
(* d+p >= |K|) and N under the edge byte N.prefix[p]; the slot is swung to *)
(* it and N keeps all its children.                                        *)
(***************************************************************************)
C29_PrefixSplitNewNode ==
    /\ [][\A t \in Threads :
             SplitBuildBy(t) =>
                 LET N == th[t].curNode
                     K == th[t].key
                     p == th[t].p
                     new == heap'[th'[t].newNode]
                 IN /\ p < Len(PrefixOfSplit(t))
                    /\ p = checkPrefix(PrefixOfSplit(t), K, th[t].depth)
                    /\ new.type = nodeType4
                    /\ getPrefix(new) = Slice(PrefixOfSplit(t), 0, p)
                    /\ ChildCount(new) = 2
                    /\ EdgesOf(new) = {[b |-> ByteOrEnd(K, th[t].depth + p), c |-> th[t].l],
                                       [b |-> PrefixOfSplit(t)[p + 1], c |-> N]}]_vars
    /\ [][\A t \in Threads :
             InPrefixSplit(t) /\ StepOf(t) =>
                 /\ EdgesOf(heap'[th[t].curNode]) = EdgesOf(heap[th[t].curNode])
                 /\ SwingBy(t) => ReadSlot(heap', root', th[t].slot) = th[t].newNode]_vars

\* t has built the node4 of a prefix split and is about to trim N (line 117)
BeforeTrim(t) == th[t].pc = "i_ps_setlen"

\* N as line 117 leaves it: the two writes of curNode.setPrefix, made under N's lock
AfterTrim(t) ==
    LET a == insert(heap, root, th[t])
        b == insert(a.h, a.r, a.s)
    IN b.h[th[t].curNode]

\* the edge byte is N.prefix[p] and N is left with the bytes of N.prefix from position from
SplitLeaves(t, from) ==
    LET pre == PrefixOfSplit(t)
        p == th[t].p
    IN /\ p < Len(pre)
       /\ [b |-> pre[p + 1], c |-> th[t].curNode] \in EdgesOf(heap[th[t].newNode])
       /\ getPrefix(AfterTrim(t)) = Slice(pre, from, Len(pre))

(***************************************************************************)
(* C30  Prefix-mismatch split, old node: after a split at the mismatch     *)
(* position p the byte N.prefix[p] is the edge from the new node4 to N and *)
(* N retains exactly N.prefix[p+1..] as its prefix: the edge byte is not   *)
(* part of N's prefix.                                                     *)
(***************************************************************************)
C30_OldNodeDropsEdgeByte ==
    \A t \in Threads : BeforeTrim(t) => SplitLeaves(t, th[t].p + 1)

\* the convention of line 117, curNode.setPrefix(curPrefix[p:]): N retains
\* N.prefix[p..], the edge byte being the first byte of its prefix
C30_OldNodeKeepsEdgeByte ==
    \A t \in Threads : BeforeTrim(t) => SplitLeaves(t, th[t].p)

(***************************************************************************)
(* The path invariant in the convention of the code                        *)
(***************************************************************************)
\* every key given to Insert so far is free of 0x00 and 0xFF
OnlySafeKeys == \A e \in started : SafeKey(e.key)

\* an inner node reached over the edge byte b, b not END, has a prefix that starts with b
EdgeByteLeadsPrefix(w) ==
    \A i \in 2..Len(w.pres) :
        w.eds[i - 1] # TerminationChar => w.pres[i] # <<>> /\ w.pres[i][1] = w.eds[i - 1]

(***************************************************************************)
(* C31  Path invariant of the implemented convention: for keys over bytes  *)
(* other than 0x00 and 0xFF, in every quiescent state and for every        *)
(* reachable leaf, the prefixes alone of the inner nodes on the path from  *)
(* the root, concatenated, are a prefix of the leaf's key, the depth       *)
(* reached after each inner node selects the edge byte taken (END when the *)
(* key ends there), and the prefix of an inner node reached over a non-END *)
(* edge byte b is non-empty and begins with b.                             *)
(***************************************************************************)
C31_PathInvariantOfConvention ==
    AllQuiet /\ OnlySafeKeys =>
        \A w \in Walks(heap, root, <<>>, <<>>) :
            FollowsKey(w, heap[w.leaf].key) /\ EdgeByteLeadsPrefix(w)

(***************************************************************************)
(* Edge bytes                                                              *)
(***************************************************************************)
\* no two children of nd are registered under the same edge byte
DistinctEdges(nd) == \A e1, e2 \in EdgesOf(nd) : e1.b = e2.b => e1.c = e2.c

InnerNodes == {n \in DOMAIN heap : heap[n].type # nodeTypeLeaf}

(***************************************************************************)
(* C32  Distinct edge bytes: for arbitrary byte keys (0xFF included), in   *)
(* every reachable state no inner node has two children registered under   *)
(* the same edge byte; this covers the node4 that a split has just built,  *)
(* whose two children have different edge bytes, the END edge and the edge *)
(* of a user byte equal to END being different edges.                      *)
(***************************************************************************)
C32_DistinctEdgeBytes == \A n \in InnerNodes : DistinctEdges(heap[n])

(***************************************************************************)
(* findChild on the root node of the growth workload                       *)
(***************************************************************************)
Bytes == 0..255

\* the edge bytes given to the root node by the Inserts that have returned: in the
\* growth workload every key is one byte long and the root node has no prefix
AddedToRoot == {e.key[1] : e \in {x \in ref : Len(x.key) = 1}}

RootIsInner == root # Nil /\ heap[root].type # nodeTypeLeaf

\* findChild(b) on the root node answers for byte b as add_child left it
FindChildAnswers(b) ==
    LET i == nodeFindChild(heap[root], b)
    IN IF b \in AddedToRoot
       THEN /\ i # -1
            /\ heap[root].childPtr[i + 1] # Nil
            /\ heap[heap[root].childPtr[i + 1]].key = <<b>>
       ELSE i = -1

(***************************************************************************)
(* C33  find_child absence: for every node class and every byte b from     *)
(* 0x00 to 0xFF, findChild(b) returns nil when no child has been added to  *)
(* the node under b, and the slot that holds child c after addChild(b, c). *)
(***************************************************************************)
C33_FindChildAbsence ==
    AllQuiet /\ RootIsInner => \A b \in Bytes : FindChildAnswers(b)

\* the same for the bytes other than 0x00
C33_FindChildNonZero ==
    AllQuiet /\ RootIsInner => \A b \in Bytes \ {0} : FindChildAnswers(b)

(***************************************************************************)
(* Occupancy                                                               *)
(***************************************************************************)
Counted == {nodeType4, nodeType16, nodeType48}

\* the occupied child slots of nd are the first numOfChildren ones
OccupancyMatches(nd) ==
    /\ nd.numOfChildren = ChildCount(nd)
    /\ \A i \in 1..Len(nd.childPtr) : nd.childPtr[i] # Nil <=> i <= nd.numOfChildren

\* t stores its leaf into an empty slot (line 61)
NilStoreBy(t) == th[t].pc = "i_nil_store" /\ StepOf(t)

(***************************************************************************)
(* C34  Child count matches occupancy: in every reachable state, for every *)
(* node4, node16 and node48, numOfChildren is the number of non-nil child  *)
(* slots and the occupied slots are exactly those below numOfChildren;     *)
(* Insert never stores a leaf into a child slot without addChild, so that  *)
(* no later addChild overwrites an occupied slot.                          *)
(***************************************************************************)
C34_ChildCountMatches ==
    /\ [](\A n \in InnerNodes : heap[n].type \in Counted => OccupancyMatches(heap[n]))
    /\ [][\A t \in Threads : NilStoreBy(t) => th[t].slot = RootSlot]_vars

(***************************************************************************)
(* Growth                                                                  *)
(***************************************************************************)
NextClass(ty) ==
    CASE ty = nodeType4 -> nodeType16
      [] ty = nodeType16 -> nodeType48
      [] OTHER -> nodeType256

\* new is old in the next class: same prefix, same children under the same bytes
GrowPreserves(old, new) ==
    /\ new.type = NextClass(old.type)
    /\ new.prefixLen = old.prefixLen
    /\ getPrefix(new) = getPrefix(old)
    /\ EdgesOf(new) = EdgesOf(old)

FullNodes == {n \in InnerNodes : isFull(heap[n])}

(***************************************************************************)
(* C35  Growth preserves content and only widens: grow() on a full node4,  *)
(* node16 or node48 returns a node of the next larger class with the same  *)
(* prefix and length, the same child under every byte under which the old  *)
(* node held a child, and no child under any other byte.                   *)
(***************************************************************************)
C35_GrowPreserves == \A n \in FullNodes : GrowPreserves(heap[n], nodeGrow(heap[n]))

(***************************************************************************)
(* The child index of node48                                               *)
(***************************************************************************)
RootIs48 == root # Nil /\ heap[root].type = nodeType48

\* the edge byte under which addChild registered the leaf c below the root node,
\* which has no prefix in the growth workloads
RegisteredUnder(c) == addChildByte(heap[c].key, 0)

\* the children array of the root node, in the order of their addChild
RootChildren == {i \in 0..(heap[root].numOfChildren - 1) : heap[root].childPtr[i + 1] # Nil}

\* entry b of childIndex is the absent value or an index into the children array
ValidIndexOrAbsent(nd, b) ==
    \/ nd.childIndex[b + 1] = -1
    \/ nd.childIndex[b + 1] \in 0..(Cap48 - 1)

(***************************************************************************)
(* C36  N48 absent encoding: in a node48 produced by growth, findChild(b)  *)
(* returns the child added under b for every such b, the child at index 0  *)
(* of the children array included, and nil for every byte under which no   *)
(* child was added; the absent entry of childIndex is not a valid index.   *)
(***************************************************************************)
C36_N48AbsentEncoding ==
    AllQuiet /\ RootIs48 =>
        /\ \A i \in RootChildren :
               nodeFindChild(heap[root], RegisteredUnder(heap[root].childPtr[i + 1])) = i
        /\ \A b \in Bytes :
               /\ ValidIndexOrAbsent(heap[root], b)
               /\ (\A i \in RootChildren : RegisteredUnder(heap[root].childPtr[i + 1]) # b)
                      => nodeFindChild(heap[root], b) = -1

(***************************************************************************)
(* The overwrite of an existing key                                        *)
(***************************************************************************)
\* the step of t is the assignment of line 76: both locks are taken and the key of
\* curNode equals the key of the call
UpdateBy(t) ==
    /\ th[t].pc = "i_leaf_locked"
    /\ SameKey(heap[th[t].curNode].key, th[t].key)
    /\ StepOf(t)

\* curNode with the value of the leaf l of the call
Overwritten(t) == [heap[th[t].curNode] EXCEPT !.val = heap[th[t].l].val]

(***************************************************************************)
(* C37  In-place update: an Insert whose key equals the key of an existing *)
(* leaf changes only that leaf's value; it creates no node, changes no     *)
(* child slot, prefix or child count of any node, nor the root pointer,    *)
(* and the value is written while the lock bit of that leaf is set.        *)
(***************************************************************************)
C37_InPlaceUpdate ==
    [][\A t \in Threads : UpdateBy(t) =>
          /\ th'[t].pc # "panic"
          /\ root' = root
          /\ DOMAIN heap' = DOMAIN heap
          /\ IsLocked(heap[th[t].curNode].ver)
          /\ th[t].curNode \in HeldBy(th[t])
          /\ Content(heap'[th[t].curNode]) = Content(Overwritten(t))
          /\ \A n \in DOMAIN heap \ {th[t].curNode} :
                 Content(heap'[n]) = Content(heap[n])]_vars

(***************************************************************************)
(* Adding a child                                                          *)
(***************************************************************************)
\* the step of t is the branch of lines 140-151: curNode and its parent are locked
\* and findChild gave nil
AddBy(t) == th[t].pc = "i_add_locked" /\ StepOf(t)

\* the node addChild of line 148 is applied to
AddTarget(t) == ReadSlot(heap, root, th[t].slot)

\* node n has room for one more child
HasRoom(n) ==
    /\ n # Nil
    /\ heap[n].type \in Counted => heap[n].numOfChildren < Capacity(heap[n])

\* the step of t appended the grown successor of curNode, which holds the leaf of
\* the call
GrewBy(t) ==
    /\ Len(heap') = Len(heap) + 1
    /\ heap'[Len(heap')].type = NextClass(heap[th[t].curNode].type)
    /\ \E e \in EdgesOf(heap'[Len(heap')]) : e.c = th[t].l

(***************************************************************************)
(* C38  No add to a full node: addChild is never executed on a node whose  *)
(* child count equals its capacity; Insert grows curNode exactly when the  *)
(* needed edge byte is absent and curNode is full, and adds the new leaf   *)
(* to the grown successor; node256 is never reported full and never grown. *)
(***************************************************************************)
C38_NoAddToFullNode ==
    [][\A t \in Threads : AddBy(t) =>
          /\ th'[t].pc # "panic"
          /\ heap[th[t].curNode].type = nodeType256 => ~isFull(heap[th[t].curNode])
          /\ IF isFull(heap[th[t].curNode])
             THEN GrewBy(t) /\ heap[th[t].curNode].type # nodeType256
             ELSE Len(heap') = Len(heap) /\ HasRoom(AddTarget(t))]_vars

(***************************************************************************)
(* Attempts that restart                                                   *)
(***************************************************************************)
\* the places of Tree.insert at or before the last goto restart of an attempt
\* (lines 51-74 and 97-139): no store has been made yet
RestartPcs ==
    {"i_load", "i_await", "i_cur", "i_lockp", "i_lockc", "i_fail_unlockp",
     "i_prefix", "i_val1", "i_find", "i_val2"}

\* the step of t is made at one of these places
BeforeWriteBy(t) == th[t].op = "ins" /\ th[t].pc \in RestartPcs /\ StepOf(t)

\* the step of t took the lock of curNode, after which the attempt cannot restart
LockedCurBy(t) == th[t].pc = "i_lockc" /\ ~RestartBy(t) /\ th'[t].pc # "i_fail_unlockp"

(***************************************************************************)
(* C39  A restarting attempt changes no content: an Insert attempt that    *)
(* ends in a restart has changed no node's prefix, child slots, child      *)
(* count or value and not the root pointer; the only state it may have     *)
(* changed is the version word of a parent it locked and unlocked again.   *)
(* Every step up to the last possible restart leaves the contents alone,   *)
(* and no restart happens after that.                                      *)
(***************************************************************************)
C39_RestartChangesNothing ==
    /\ [][\A t \in Threads : BeforeWriteBy(t) =>
             /\ root' = root
             /\ DOMAIN heap' = DOMAIN heap
             /\ \A n \in DOMAIN heap :
                    /\ Content(heap'[n]) = Content(heap[n])
                    /\ heap'[n].ver # heap[n].ver =>
                           \/ n = th[t].parent
                           \/ n = th[t].curNode /\ LockedCurBy(t)]_vars
    /\ [][\A t \in Threads :
             th[t].op = "ins" /\ RestartBy(t) => th[t].pc \in RestartPcs]_vars

\* an Insert has locked the root node as its parent, failed to lock the node below,
\* unlocked the root node and restarted; everything has returned
W39_RestartChangesNothing ==
    /\ AllReturned
    /\ root # Nil /\ heap[root].type = nodeType4
    /\ Counter(heap[root].ver) > 2
    /\ \E t \in Threads : th[t].op = "ins" /\ th[t].restarts = 1 /\ th[t].key = <<1, 1, 3>>

(***************************************************************************)
(* The storage of prefixes                                                 *)
(***************************************************************************)
\* the byte strings given to setPrefix on the nodes of the heap
MaxSample == 10

SamplePrefixes == {Run(k) : k \in 0..MaxSample}

\* a byte string whose length the 16 bits of prefixLen cannot count
LongPrefixes == {Run(PrefixLenModulus)}

\* nd in the node class reached after k calls of grow: node4, node16, node48, node256
InClass(nd, k) ==
    CASE k = 0 -> nd
      [] k = 1 -> nodeGrow(nd)
      [] k = 2 -> nodeGrow(nodeGrow(nd))
      [] OTHER -> nodeGrow(nodeGrow(nodeGrow(nd)))

\* getPrefix after setPrefix(p) gives p, and the length field is the length of p
RoundTrip(nd, pre) ==
    /\ getPrefix(setPrefix(nd, pre)) = pre
    /\ setPrefix(nd, pre).prefixLen = Len(pre)

\* node n holds the prefix pre that setPrefix was given
Holds(nd, pre) == getPrefix(nd) = pre /\ nd.prefixLen = Len(pre)

\* the step of t builds the node4 of a leaf split (lines 81-87)
LeafSplitBy(t) ==
    /\ th[t].pc = "i_leaf_locked"
    /\ ~SameKey(heap[th[t].curNode].key, th[t].key)
    /\ StepOf(t)
    /\ th'[t].pc = "i_store"

\* the step of t builds the node4 of a prefix split (lines 113-116)
PrefixSplitBy(t) == th[t].pc = "i_ps_build" /\ StepOf(t)

\* the step of t completes curNode.setPrefix of line 117
TrimBy(t) == th[t].pc = "i_ps_setpre" /\ StepOf(t)

(***************************************************************************)
(* C40  Prefix storage round-trip: for every inner node class and every    *)
(* byte string p (inline up to 8 bytes, spilled above), getPrefix after    *)
(* setPrefix(p) returns exactly p and the length field is the length of p, *)
(* also when a long prefix is replaced by a short one or a short one by a  *)
(* long one on the same node.                                              *)
(***************************************************************************)
C40_PrefixRoundTrip ==
    /\ [](\A n \in InnerNodes : \A k \in 0..3 : \A pre \in SamplePrefixes \cup LongPrefixes :
              heap[n].type = nodeType4 => RoundTrip(InClass(heap[n], k), pre))
    /\ [][\A t \in Threads :
             /\ LeafSplitBy(t) =>
                    Holds(heap'[Len(heap')],
                          getCommonPrefix(th[t].key, loadKey(heap[th[t].curNode]), th[t].depth))
             /\ PrefixSplitBy(t) =>
                    Holds(heap'[Len(heap')], Slice(th[t].curPrefix, 0, th[t].p))
             /\ TrimBy(t) => Holds(heap'[th[t].curNode], TrimmedPrefix(th[t]))]_vars

\* the same for prefixes that the 16 bits of the length field can count
C40_PrefixRoundTripShort ==
    /\ [](\A n \in InnerNodes : \A k \in 0..3 : \A pre \in SamplePrefixes :
              heap[n].type = nodeType4 => RoundTrip(InClass(heap[n], k), pre))
    /\ [][\A t \in Threads :
             /\ LeafSplitBy(t) =>
                    Holds(heap'[Len(heap')],
                          getCommonPrefix(th[t].key, loadKey(heap[th[t].curNode]), th[t].depth))
             /\ PrefixSplitBy(t) =>
                    Holds(heap'[Len(heap')], Slice(th[t].curPrefix, 0, th[t].p))
             /\ TrimBy(t) => Holds(heap'[th[t].curNode], TrimmedPrefix(th[t]))]_vars
====
